---- MODULE Spec2Model ----
(***************************************************************************)
(* A model of the is-obsessed backend: the activity / session tracker, the *)
(* challenge tracker and the topic / subtopic tracker, each request        *)
(* handler translated from its TypeScript source.  The hosted datastore is *)
(* a set of tables (sequences of rows, a row's id being its index); every  *)
(* call the handlers make against it is one step that either answers or    *)
(* returns an error.                                                       *)
(***************************************************************************)
EXTENDS Integers, Sequences, FiniteSets, TLC

VARIABLES
    now,          \* the server clock, in whole seconds (the source's millisecond
                  \* differences and divisors are all divided by 1000)
    activities,   \* table activities: rows [name, reps]
    sessions,     \* table activity_sessions
    challenges,   \* table motivational_challenges
    progress,     \* table challenge_progress
    resp,         \* the response of the last completed request
    req,          \* the requests in flight: where each is between its datastore calls
    topics,       \* table topics
    subtopics,    \* table subtopics
    settings      \* table global_settings: the value stored under each key

vars == <<now, activities, sessions, challenges, progress, resp, req, topics, subtopics,
         settings>>

----------------------------------------------------------------------------
(* Bounds of the model *)

MaxElapsed == 125        \* the clock runs for at most this many seconds
MaxSessions == 2         \* session rows
MaxFaultSessions == 1    \* session rows, where datastore calls fail
MaxChallenges == 1       \* challenge rows
MaxActivities == 3       \* activity rows
MaxReps == 3             \* the /increment route stops once reps would pass this
MaxRequests == 2         \* requests in flight at once
MaxCreated == 2          \* challenge rows, where create requests interleave
MaxTopics == 1           \* topic rows
MaxSubtopics == 2        \* subtopic rows
MaxRepsCompleted == 6    \* the /reps route stops once reps_completed would pass this
MaxValidated == 1        \* subtopic rows, where accepted and rejected bodies are tried
MaxProgress == 3         \* challenge_progress rows, where the countdown is synced

(* Model parameters *)
StartClock == 23 * 3600 + 58 * 60      \* the server starts at 23:58:00 UTC of day 0
TickSeconds == {60, 65}                \* how far the clock moves in one step
SleepSeconds == 223 * 3600             \* a long step of the clock: 9 days and 7 hours
MaxSlept == 7 * 223 * 3600             \* the long steps end past the 64 days of a challenge
TimezoneOffsets == {-3 * 3600, 0, 10 * 3600}   \* local time minus UTC, of the server
DbClockSkew == {0, 60}                 \* how far the datastore's clock is ahead of the server's
SessionTypeInputs == {"none", "manual", "timer"}   \* body.session_type; "none" = absent
GoalHoursInputs == {0, 500}            \* body.ultimate_focus_goal_hours

----------------------------------------------------------------------------
(* Values *)

Null == <<>>
Some(v) == <<v>>
Max(a, b) == IF a >= b THEN a ELSE b

\* Math.ceil(a / b) for b > 0
CeilDiv(a, b) == -((-a) \div b)

\* new Date().toISOString().split('T')[0]: the UTC calendar date, as a day number
Today(t) == t \div (60 * 60 * 24)

\* the datastore calls a handler makes; a set of these is the calls that
\* return an error during one request
Calls == {"sessionRead", "sessionWrite", "activityName", "rpc", "activityRead",
          "activityWrite", "challengeRead", "progressRead", "progressWrite",
          "deactivate", "challengeInsert", "topicRead", "topicWrite",
          "subtopicRead", "subtopicWrite", "subtopicsRead", "settingWrite",
          "topicsRead"}

\* supabase .single() over the rows matching a filter (a set of ids):
\* the row when exactly one matches, otherwise no data and error PGRST116;
\* no data and another error when the call itself fails
Single(ids, fails) ==
    IF fails THEN [data |-> Null, error |-> "failed"]
    ELSE IF Cardinality(ids) = 1
         THEN [data |-> Some(CHOOSE i \in ids : TRUE), error |-> "none"]
         ELSE [data |-> Null, error |-> "PGRST116"]

----------------------------------------------------------------------------
(* Activities: ActivityService and the /activities routes *)

FocusNames == {"Focus Hour", "FOCUSSED TIME"}
ActivityNames == {"Focus Hour", "FOCUSSED TIME", "Push-ups"}
NameInputs == ActivityNames \cup {""}
IncrementInputs == {0, 3}              \* body.amount of /increment; 0 = absent (falsy)
DecrementInputs == {-1, 0, 2, 5}       \* body.amount of /decrement
RepsInputs == {-1, 2}                  \* body.reps of PUT /activities/:id

\* a response: the handler, the HTTP status, the error message, the id of
\* the row the body carries (0 when it carries none) and, for the handlers
\* whose answer is read, the body
NoResponse == [op |-> "none", status |-> 0, error |-> "", id |-> 0, body |-> <<>>]
Response(op, status, error, id) ==
    [op |-> op, status |-> status, error |-> error, id |-> id, body |-> <<>>]

\* a 200 response whose body carries the fields the claims read
Reply(op, id, body) ==
    [op |-> op, status |-> 200, error |-> "", id |-> id, body |-> <<body>>]

\* a row with the fields of `updates` overwritten (supabase .update(updates))
Merge(row, updates) ==
    [f \in DOMAIN row |-> IF f \in DOMAIN updates THEN updates[f] ELSE row[f]]

\* ActivityService.getActivityById: null when no such row
getActivityById(acts, id) ==
    IF id \in DOMAIN acts THEN Some(acts[id]) ELSE Null

\* ActivityService.updateActivity: update(updates).eq("id", id).select().single();
\* the name column is unique, so an update to a name another row holds fails
updateActivity(acts, id, updates, F) ==
    IF \/ "activityWrite" \in F
       \/ id \notin DOMAIN acts
       \/ /\ "name" \in DOMAIN updates
          /\ \E j \in DOMAIN acts : j # id /\ acts[j].name = updates.name
    THEN [threw |-> TRUE, activities |-> acts]
    ELSE [threw |-> FALSE, activities |-> [acts EXCEPT ![id] = Merge(@, updates)]]

\* the datastore function increment_activity_reps
RpcIncrement(acts, id, amount) ==
    IF id \in DOMAIN acts THEN [acts EXCEPT ![id].reps = @ + amount] ELSE acts

\* ActivityService.incrementReps: the rpc, and the manual increment when the rpc errors
incrementReps(acts, id, amount, F) ==
    IF "rpc" \notin F
    THEN [threw |-> FALSE, activities |-> RpcIncrement(acts, id, amount)]
    ELSE IF "activityRead" \in F \/ getActivityById(acts, id) = Null
         THEN [threw |-> TRUE, activities |-> acts]
         ELSE updateActivity(acts, id, [reps |-> Max(0, acts[id].reps + amount)], F)

\* a decrement that does not clamp at zero
decrementRepsUnclamped(acts, id, amount, F) ==
    IF "activityRead" \in F \/ getActivityById(acts, id) = Null
    THEN [threw |-> TRUE, activities |-> acts]
    ELSE updateActivity(acts, id, [reps |-> acts[id].reps - amount], F)

\* ActivityService.decrementReps
decrementReps(acts, id, amount, F) ==
    IF "activityRead" \in F \/ getActivityById(acts, id) = Null
    THEN [threw |-> TRUE, activities |-> acts]
    ELSE LET newReps == Max(0, acts[id].reps - amount)
         IN  updateActivity(acts, id, [reps |-> newReps], F)

\* the bound on reps: a request may not raise a row's reps past MaxReps
WithinReps(acts) ==
    \A i \in DOMAIN acts :
        IF acts[i].reps <= MaxReps THEN TRUE
        ELSE i \in DOMAIN activities /\ acts[i].reps <= activities[i].reps

\* req.body.amount || 1
AmountOf(bodyAmount) == IF bodyAmount = 0 THEN 1 ELSE bodyAmount

\* POST /activities
PostActivity(name, F) ==
    /\ IF name = ""
       THEN /\ resp' = Response("createActivity", 400, "Activity name is required", 0)
            /\ UNCHANGED activities
       ELSE IF "activityWrite" \in F \/ \E j \in DOMAIN activities : activities[j].name = name
       THEN /\ resp' = Response("createActivity", 500, "Failed to create activity", 0)
            /\ UNCHANGED activities
       ELSE LET row == [name |-> name, reps |-> 0]
            IN  /\ activities' = Append(activities, row)
                /\ resp' = Response("createActivity", 201, "", Len(activities) + 1)
    /\ UNCHANGED <<now, sessions, challenges, progress, req, topics, subtopics, settings>>

\* PUT /activities/:id
PutActivity(id, updates, F) ==
    LET r == updateActivity(activities, id, updates, F)
    IN  /\ activities' = r.activities
        /\ resp' = IF r.threw
                   THEN Response("updateActivity", 500, "Failed to update activity", 0)
                   ELSE Response("updateActivity", 200, "", id)
        /\ UNCHANGED <<now, sessions, challenges, progress, req, topics, subtopics, settings>>

\* POST /activities/:id/increment
PostIncrement(id, bodyAmount, F) ==
    LET r == incrementReps(activities, id, AmountOf(bodyAmount), F)
    IN  /\ WithinReps(r.activities)
        /\ activities' = r.activities
        /\ resp' = IF r.threw
                   THEN Response("incrementReps", 500, "Failed to increment activity reps", 0)
                   ELSE Response("incrementReps", 200, "", IF id \in DOMAIN activities THEN id ELSE 0)
        /\ UNCHANGED <<now, sessions, challenges, progress, req, topics, subtopics, settings>>

\* POST /activities/:id/decrement
PostDecrement(id, bodyAmount, F) ==
    LET r == decrementReps(activities, id, AmountOf(bodyAmount), F)
    IN  /\ WithinReps(r.activities)
        /\ activities' = r.activities
        /\ resp' = IF r.threw
                   THEN Response("decrementReps", 500, "Failed to decrement activity reps", 0)
                   ELSE Response("decrementReps", 200, "", id)
        /\ UNCHANGED <<now, sessions, challenges, progress, req, topics, subtopics, settings>>

----------------------------------------------------------------------------
(* Challenge progress: ChallengeService *)

\* ChallengeService.calculateRemainingSeconds
calculateRemainingSeconds(challenge, t) ==
    IF t >= challenge.end_date THEN 0
    ELSE LET daysRemaining == CeilDiv(challenge.end_date - t, 60 * 60 * 24)
         IN  Max(0, daysRemaining * 16 * 3600)

\* the ids of the challenges with is_active = true
ActiveChallenges(chs) == {i \in DOMAIN chs : chs[i].is_active}

\* the ids of the progress rows of challenge c for date d
ProgressRows(prog, c, d) ==
    {j \in DOMAIN prog : prog[j].challenge_id = c /\ prog[j].progress_date = d}

\* ChallengeService.updateDailyFocusHours: the challenge_progress table after
\* the call (every error is caught and logged inside it)
updateDailyFocusHours(chs, prog, t, durationMinutes, F) ==
    LET challenge == Single(ActiveChallenges(chs), "challengeRead" \in F)
    IN  IF challenge.error # "none" \/ challenge.data = Null THEN prog
        ELSE
        LET c == challenge.data[1]
            today == Today(t)
            existingProgress == Single(ProgressRows(prog, c, today), "progressRead" \in F)
        IN  IF existingProgress.error \notin {"none", "PGRST116"} THEN prog
            ELSE IF "progressWrite" \in F THEN prog
            ELSE IF existingProgress.data # Null
            THEN LET j == existingProgress.data[1]
                 IN  [prog EXCEPT ![j].daily_focus_minutes =
                                       prog[j].daily_focus_minutes + durationMinutes]
            ELSE Append(prog, [challenge_id |-> c,
                               progress_date |-> today,
                               daily_focus_minutes |-> durationMinutes,
                               countdown_seconds_remaining |->
                                   calculateRemainingSeconds(chs[c], t)])

----------------------------------------------------------------------------
(* Sessions: ActivityService.startSession / endSession and their routes *)

\* the ids of the sessions of activity a with is_active = true
ActiveSessionsOf(ss, a) ==
    {i \in DOMAIN ss : ss[i].activity_id = a /\ ss[i].is_active}

\* the row the datastore inserts for startSession: start_time and is_active
\* are the table's defaults (the datastore's own clock, true)
NewSession(a, session_type, start) ==
    [activity_id |-> a, start_time |-> start, end_time |-> Null,
     duration_minutes |-> Null, is_active |-> TRUE, session_type |-> session_type]

\* a duration rounded up instead of down
DurationMinutesRoundedUp(start, end) == Max(0, CeilDiv(end - start, 60))

\* Math.max(0, Math.floor((now - startTime) / (1000 * 60)))
DurationMinutes(start, end) == Max(0, (end - start) \div 60)

\* a startSession that skips the existing-session lookup
ExistingSessionUnchecked(ss, a, F) == Null

\* the existing-session lookup of startSession: only `data` is read
ExistingSession(ss, a, F) == Single(ActiveSessionsOf(ss, a), "sessionRead" \in F).data

\* an insert the table refuses while the activity has an active session
InsertSessionUnique(ss, acts, a, session_type, start, F) ==
    IF "sessionWrite" \in F \/ a \notin DOMAIN acts \/ ActiveSessionsOf(ss, a) # {}
    THEN [threw |-> "Failed to start session", sessions |-> ss]
    ELSE [threw |-> "", sessions |-> Append(ss, NewSession(a, session_type, start))]

\* the insert of startSession: activity_id references activities, and the
\* table has no constraint on is_active
InsertSession(ss, acts, a, session_type, start, F) ==
    IF "sessionWrite" \in F \/ a \notin DOMAIN acts
    THEN [threw |-> "Failed to start session", sessions |-> ss]
    ELSE [threw |-> "", sessions |-> Append(ss, NewSession(a, session_type, start))]

\* ActivityService.startSession: what it throws ("" when it returns) and the
\* activity_sessions table after it
startSession(ss, acts, a, session_type, start, F) ==
    IF ExistingSession(ss, a, F) # Null
    THEN [threw |-> "Activity already has an active session", sessions |-> ss]
    ELSE InsertSession(ss, acts, a, session_type, start, F)

\* a start route that answers every error with 500
StartErrorStatusAlways500(message) == 500

\* the status the start route answers an error with:
\* error.message.includes("already has an active session") ? 400 : 500
StartErrorStatus(message) ==
    IF message = "Activity already has an active session" THEN 400 ELSE 500

\* session_type: req.body.session_type || 'timer'
SessionTypeOf(bodyType) == IF bodyType = "none" THEN "timer" ELSE bodyType

\* the response of the start route to what startSession returned or threw
StartResponse(r) ==
    IF r.threw = ""
    THEN Response("startSession", 201, "", Len(r.sessions))
    ELSE IF StartErrorStatus(r.threw) = 400
    THEN Response("startSession", 400, r.threw, 0)
    ELSE Response("startSession", 500, "Failed to start session", 0)

\* POST /activities/:id/sessions/start, its datastore calls in one step
PostSessionStart(a, bodyType, skew, F) ==
    LET r == startSession(sessions, activities, a, SessionTypeOf(bodyType), now + skew, F)
    IN  /\ sessions' = r.sessions
        /\ resp' = StartResponse(r)
        /\ UNCHANGED <<now, activities, challenges, progress, req, topics, subtopics, settings>>

\* a request between two datastore calls
Idle == [pc |-> "idle", a |-> 0, session_type |-> "", goal |-> 0, c |-> 0, today |-> 0,
         id |-> 0, data |-> <<>>]

\* POST /activities/:id/sessions/start, first datastore call of request r:
\* the existing-session lookup
StartSessionCheck(r, a, bodyType) ==
    /\ req[r].pc = "idle"
    /\ IF ExistingSession(sessions, a, {}) # Null
       THEN /\ resp' = StartResponse([threw |-> "Activity already has an active session",
                                      sessions |-> sessions])
            /\ UNCHANGED req
       ELSE /\ req' = [req EXCEPT ![r] = [Idle EXCEPT !.pc = "startInsert", !.a = a,
                                                      !.session_type = SessionTypeOf(bodyType)]]
            /\ UNCHANGED resp
    /\ UNCHANGED <<now, activities, sessions, challenges, progress, topics, subtopics, settings>>

\* second datastore call of request r: the insert
StartSessionInsert(r, F) ==
    /\ req[r].pc = "startInsert"
    /\ LET ins == InsertSession(sessions, activities, req[r].a, req[r].session_type, now, F)
       IN  /\ sessions' = ins.sessions
           /\ resp' = StartResponse(ins)
    /\ req' = [req EXCEPT ![r] = Idle]
    /\ UNCHANGED <<now, activities, challenges, progress, topics, subtopics, settings>>

\* the session row endSession writes
EndedSession(sessionData, t) ==
    [sessionData EXCEPT !.end_time = Some(t),
                        !.duration_minutes = Some(DurationMinutes(sessionData.start_time, t)),
                        !.is_active = FALSE]

\* a side effect that recognises only the name "Focus Hour"
IsFocusSessionOneName(acts, data, F) ==
    LET activity == Single({data.activity_id} \cap DOMAIN acts, "activityName" \in F).data
    IN  /\ data.duration_minutes[1] > 0
        /\ activity # Null
        /\ acts[activity[1]].name = "Focus Hour"

\* a side effect that runs for an activity of any name
IsFocusSessionAnyName(acts, data, F) ==
    LET activity == Single({data.activity_id} \cap DOMAIN acts, "activityName" \in F).data
    IN  /\ data.duration_minutes[1] > 0
        /\ activity # Null

\* whether endSession runs the Focus Hour side effect for the ended session
IsFocusSession(acts, data, F) ==
    LET activity == Single({data.activity_id} \cap DOMAIN acts, "activityName" \in F).data
    IN  /\ data.duration_minutes[1] > 0
        /\ activity # Null
        /\ acts[activity[1]].name \in FocusNames

\* an end route that answers 500 when the reps increment throws
PostSessionEndPropagating(sessionId, F) ==
    LET fetch == Single({i \in DOMAIN sessions : i = sessionId /\ sessions[i].is_active},
                        "sessionRead" \in F)
    IN  /\ IF fetch.error # "none" \/ "sessionWrite" \in F
           THEN /\ resp' = Response("endSession", 500, "Failed to end session", 0)
                /\ UNCHANGED <<sessions, activities, progress>>
           ELSE LET data == EndedSession(sessions[sessionId], now)
                    durationMinutes == data.duration_minutes[1]
                    focus == IsFocusSession(activities, data, F)
                    inc == incrementReps(activities, data.activity_id, durationMinutes, F)
                IN  /\ sessions' = [sessions EXCEPT ![sessionId] = data]
                    /\ activities' = IF focus THEN inc.activities ELSE activities
                    /\ progress' = IF focus /\ ~inc.threw
                                   THEN updateDailyFocusHours(challenges, progress, now,
                                                              durationMinutes, F)
                                   ELSE progress
                    /\ resp' = IF focus /\ inc.threw
                               THEN Response("endSession", 500, "Failed to end session", 0)
                               ELSE Response("endSession", 200, "", sessionId)
        /\ UNCHANGED <<now, challenges, req, topics, subtopics, settings>>

\* POST /activities/:id/sessions/:sessionId/end
PostSessionEnd(sessionId, F) ==
    LET fetch == Single({i \in DOMAIN sessions : i = sessionId /\ sessions[i].is_active},
                        "sessionRead" \in F)
    IN  /\ IF fetch.error # "none" \/ "sessionWrite" \in F
           THEN /\ resp' = Response("endSession", 500, "Failed to end session", 0)
                /\ UNCHANGED <<sessions, activities, progress>>
           ELSE LET data == EndedSession(sessions[sessionId], now)
                    durationMinutes == data.duration_minutes[1]
                    focus == IsFocusSession(activities, data, F)
                    inc == incrementReps(activities, data.activity_id, durationMinutes, F)
                IN  /\ sessions' = [sessions EXCEPT ![sessionId] = data]
                    /\ activities' = IF focus THEN inc.activities ELSE activities
                    /\ progress' = IF focus /\ ~inc.threw
                                   THEN updateDailyFocusHours(challenges, progress, now,
                                                              durationMinutes, F)
                                   ELSE progress
                    /\ resp' = Response("endSession", 200, "", sessionId)
        /\ UNCHANGED <<now, challenges, req, topics, subtopics, settings>>

\* a fetch of the session by its id alone, active or ended
EndSessionFetchAnyState(r, sessionId, F) ==
    LET fetch == Single({i \in DOMAIN sessions : i = sessionId}, "sessionRead" \in F)
    IN  /\ req[r].pc = "idle"
        /\ IF fetch.error # "none"
           THEN /\ resp' = Response("endSession", 500, "Failed to end session", 0)
                /\ UNCHANGED req
           ELSE /\ req' = [req EXCEPT ![r] =
                              [Idle EXCEPT !.pc = "endUpdate", !.id = sessionId,
                                           !.data = EndedSession(sessions[sessionId], now)]]
                /\ UNCHANGED resp
        /\ UNCHANGED <<now, activities, sessions, challenges, progress, topics, subtopics,
                       settings>>

\* POST /activities/:id/sessions/:sessionId/end, first datastore call of
\* request r: the fetch of the active session; the handler then reads the
\* clock and computes the duration
EndSessionFetch(r, sessionId, F) ==
    LET fetch == Single({i \in DOMAIN sessions : i = sessionId /\ sessions[i].is_active},
                        "sessionRead" \in F)
    IN  /\ req[r].pc = "idle"
        /\ IF fetch.error # "none"
           THEN /\ resp' = Response("endSession", 500, "Failed to end session", 0)
                /\ UNCHANGED req
           ELSE /\ req' = [req EXCEPT ![r] =
                              [Idle EXCEPT !.pc = "endUpdate", !.id = sessionId,
                                           !.data = EndedSession(sessions[sessionId], now)]]
                /\ UNCHANGED resp
        /\ UNCHANGED <<now, activities, sessions, challenges, progress, topics, subtopics,
                       settings>>

\* second datastore call of request r: the update of the session row by its
\* id, which writes end_time, duration_minutes and is_active = false
EndSessionUpdate(r, F) ==
    LET computed == req[r].data
        data == [sessions[req[r].id] EXCEPT !.end_time = computed.end_time,
                                            !.duration_minutes = computed.duration_minutes,
                                            !.is_active = FALSE]
    IN  /\ req[r].pc = "endUpdate"
        /\ IF "sessionWrite" \in F
           THEN /\ resp' = Response("endSession", 500, "Failed to end session", 0)
                /\ req' = [req EXCEPT ![r] = Idle]
                /\ UNCHANGED sessions
           ELSE /\ sessions' = [sessions EXCEPT ![req[r].id] = data]
                /\ IF data.duration_minutes[1] > 0
                   THEN /\ req' = [req EXCEPT ![r].pc = "endSideEffect", ![r].data = data]
                        /\ UNCHANGED resp
                   ELSE /\ req' = [req EXCEPT ![r] = Idle]
                        /\ resp' = Response("endSession", 200, "", req[r].id)
        /\ UNCHANGED <<now, activities, challenges, progress, topics, subtopics, settings>>

\* the remaining datastore calls of request r, taken together: the read of
\* the activity's name, the reps increment and updateDailyFocusHours
EndSessionSideEffect(r, F) ==
    LET data == req[r].data
        durationMinutes == data.duration_minutes[1]
        focus == IsFocusSession(activities, data, F)
        inc == incrementReps(activities, data.activity_id, durationMinutes, F)
    IN  /\ req[r].pc = "endSideEffect"
        /\ activities' = IF focus THEN inc.activities ELSE activities
        /\ progress' = IF focus /\ ~inc.threw
                       THEN updateDailyFocusHours(challenges, progress, now,
                                                  durationMinutes, F)
                       ELSE progress
        /\ resp' = Response("endSession", 200, "", req[r].id)
        /\ req' = [req EXCEPT ![r] = Idle]
        /\ UNCHANGED <<now, sessions, challenges, topics, subtopics, settings>>

----------------------------------------------------------------------------
(* Challenges: POST /challenge *)

\* update({ is_active: false }).eq('is_active', true)
Deactivate(chs) == [i \in DOMAIN chs |-> [chs[i] EXCEPT !.is_active = FALSE]]

\* the challenge row POST /challenge inserts: endDate.setDate(startDate.getDate() + 64)
NewChallenge(goal, t) ==
    [start_date |-> t, end_date |-> t + 64 * 24 * 3600,
     ultimate_focus_goal_hours |-> goal, is_active |-> TRUE]

\* the initial progress row of challenge c
InitialProgress(c, t) ==
    [challenge_id |-> c, progress_date |-> Today(t), daily_focus_minutes |-> 0,
     countdown_seconds_remaining |-> 64 * 16 * 3600]

\* POST /challenge, all of its datastore calls in one step
PostChallenge(goal, F) ==
    /\ IF goal <= 0
       THEN /\ resp' = Response("createChallenge", 400,
                                "Ultimate focus goal hours must be a positive number", 0)
            /\ UNCHANGED <<challenges, progress>>
       ELSE LET deactivated == IF "deactivate" \in F THEN challenges
                               ELSE Deactivate(challenges)
                challenge == NewChallenge(goal, now)
            IN  IF "challengeInsert" \in F
                THEN /\ challenges' = deactivated
                     /\ UNCHANGED progress
                     /\ resp' = Response("createChallenge", 500,
                                         "Failed to create challenge", 0)
                ELSE /\ challenges' = Append(deactivated, challenge)
                     /\ IF "progressWrite" \in F
                        THEN /\ UNCHANGED progress
                             /\ resp' = Response("createChallenge", 500,
                                                 "Failed to create challenge", 0)
                        ELSE /\ progress' = Append(progress,
                                                   InitialProgress(Len(deactivated) + 1, now))
                             /\ resp' = Response("createChallenge", 201, "", Len(deactivated) + 1)
    /\ UNCHANGED <<now, activities, sessions, req, topics, subtopics, settings>>

\* POST /challenge, first datastore call of request r: the deactivation,
\* whose error the handler does not read
ChallengeDeactivate(r, goal, F) ==
    /\ req[r].pc = "idle"
    /\ IF goal <= 0
       THEN /\ resp' = Response("createChallenge", 400,
                                "Ultimate focus goal hours must be a positive number", 0)
            /\ UNCHANGED <<challenges, req>>
       ELSE /\ challenges' = IF "deactivate" \in F THEN challenges ELSE Deactivate(challenges)
            /\ req' = [req EXCEPT ![r] = [Idle EXCEPT !.pc = "challengeInsert",
                                                      !.goal = goal]]
            /\ UNCHANGED resp
    /\ UNCHANGED <<now, activities, sessions, progress, topics, subtopics, settings>>

\* second datastore call of request r: the insert of the challenge
ChallengeInsert(r, F) ==
    /\ req[r].pc = "challengeInsert"
    /\ IF "challengeInsert" \in F
       THEN /\ resp' = Response("createChallenge", 500, "Failed to create challenge", 0)
            /\ req' = [req EXCEPT ![r] = Idle]
            /\ UNCHANGED challenges
       ELSE /\ challenges' = Append(challenges, NewChallenge(req[r].goal, now))
            /\ req' = [req EXCEPT ![r].pc = "progressInsert", ![r].c = Len(challenges) + 1]
            /\ UNCHANGED resp
    /\ UNCHANGED <<now, activities, sessions, progress, topics, subtopics, settings>>

\* third datastore call of request r: the insert of the initial progress row
ChallengeProgress(r, F) ==
    /\ req[r].pc = "progressInsert"
    /\ IF "progressWrite" \in F
       THEN /\ resp' = Response("createChallenge", 500, "Failed to create challenge", 0)
            /\ UNCHANGED progress
       ELSE /\ progress' = Append(progress, InitialProgress(req[r].c, now))
            /\ resp' = Response("createChallenge", 201, "", req[r].c)
    /\ req' = [req EXCEPT ![r] = Idle]
    /\ UNCHANGED <<now, activities, sessions, challenges, topics, subtopics, settings>>

----------------------------------------------------------------------------
(* The countdown: GET /challenge/current and POST /challenge/countdown/sync *)

\* the second of the local day at time t on a server tz seconds ahead of UTC
LocalSecondOfDay(t, tz) == (t + tz) % (24 * 3600)

\* now.getHours()
LocalHour(t, tz) == LocalSecondOfDay(t, tz) \div 3600

\* what POST /countdown/sync computes at time t on a server tz seconds ahead
\* of UTC: endOfActiveDay is 21:00:00 of the local day
Countdown(challenge, t, tz) ==
    LET currentHour == LocalHour(t, tz)
        isActiveHours == currentHour >= 7 /\ currentHour < 21
        dailySecondsRemaining ==
            IF isActiveHours THEN 21 * 3600 - LocalSecondOfDay(t, tz)
            ELSE IF currentHour < 7 THEN 16 * 3600
            ELSE 0
        daysRemaining == Max(0, CeilDiv(challenge.end_date - t, 24 * 3600))
    IN  [is_active_hours |-> isActiveHours,
         daily_seconds_remaining |-> dailySecondsRemaining,
         days_remaining |-> daysRemaining,
         total_seconds_remaining |->
             Max(0, (daysRemaining - 1) * 16 * 3600 + dailySecondsRemaining)]

\* GET /challenge/current, first datastore call of request r: the lookup of
\* the active challenge
CurrentChallenge(r, F) ==
    LET challenge == Single(ActiveChallenges(challenges), "challengeRead" \in F)
    IN  /\ req[r].pc = "idle"
        /\ IF challenge.error # "none" \/ challenge.data = Null
           THEN /\ resp' = Response("getCurrent", 404, "No active challenge found", 0)
                /\ UNCHANGED req
           ELSE /\ req' = [req EXCEPT ![r] = [Idle EXCEPT !.pc = "currentProgress",
                                                          !.c = challenge.data[1]]]
                /\ UNCHANGED resp
        /\ UNCHANGED <<now, activities, sessions, challenges, progress, topics, subtopics,
                       settings>>

\* second datastore call of request r: the lookup of today's progress row
CurrentProgress(r, F) ==
    LET today == Today(now)
        found == Single(ProgressRows(progress, req[r].c, today), "progressRead" \in F)
    IN  /\ req[r].pc = "currentProgress"
        /\ IF found.error \notin {"none", "PGRST116"}
           THEN /\ resp' = Response("getCurrent", 500, "Failed to fetch current challenge", 0)
                /\ req' = [req EXCEPT ![r] = Idle]
           ELSE IF found.data # Null
           THEN /\ resp' = Reply("getCurrent", req[r].c, progress[found.data[1]])
                /\ req' = [req EXCEPT ![r] = Idle]
           ELSE /\ req' = [req EXCEPT ![r].pc = "currentInsert", ![r].today = today]
                /\ UNCHANGED resp
        /\ UNCHANGED <<now, activities, sessions, challenges, progress, topics, subtopics,
                       settings>>

\* third datastore call of request r: the insert of today's progress row
CurrentInsert(r, F) ==
    LET newProgress == [challenge_id |-> req[r].c,
                        progress_date |-> req[r].today,
                        countdown_seconds_remaining |->
                            calculateRemainingSeconds(challenges[req[r].c], now),
                        daily_focus_minutes |-> 0]
    IN  /\ req[r].pc = "currentInsert"
        /\ IF "progressWrite" \in F
           THEN /\ resp' = Response("getCurrent", 500, "Failed to fetch current challenge", 0)
                /\ UNCHANGED progress
           ELSE /\ progress' = Append(progress, newProgress)
                /\ resp' = Reply("getCurrent", req[r].c, newProgress)
        /\ req' = [req EXCEPT ![r] = Idle]
        /\ UNCHANGED <<now, activities, sessions, challenges, topics, subtopics, settings>>

\* a row with the columns of updates set; a column no write has set yet is
\* not in the row
SetColumns(row, updates) ==
    [f \in DOMAIN row \cup DOMAIN updates |->
        IF f \in DOMAIN updates THEN updates[f] ELSE row[f]]

\* POST /challenge/countdown/sync on a server tz seconds ahead of UTC; the
\* lookup of today's row reads its data only, so a failed lookup counts as
\* no row
PostCountdownSync(tz, F) ==
    LET challenge == Single(ActiveChallenges(challenges), "challengeRead" \in F)
    IN  /\ IF challenge.error # "none" \/ challenge.data = Null
           THEN /\ resp' = Response("syncCountdown", 404, "No active challenge found", 0)
                /\ UNCHANGED progress
           ELSE
           LET c == challenge.data[1]
               computed == Countdown(challenges[c], now, tz)
               today == Today(now)
               existingProgress == Single(ProgressRows(progress, c, today),
                                          "progressRead" \in F)
               columns == [countdown_seconds_remaining |-> computed.total_seconds_remaining,
                           last_countdown_update |-> now,
                           is_active_period |-> computed.is_active_hours]
           IN  IF "progressWrite" \in F
               THEN /\ resp' = Response("syncCountdown", 500, "Failed to sync countdown", 0)
                    /\ UNCHANGED progress
               ELSE /\ progress' =
                           IF existingProgress.data # Null
                           THEN [progress EXCEPT ![existingProgress.data[1]] =
                                                     SetColumns(@, columns)]
                           ELSE Append(progress,
                                       SetColumns([challenge_id |-> c,
                                                   progress_date |-> today,
                                                   daily_focus_minutes |-> 0], columns))
                    /\ resp' = Reply("syncCountdown", c, computed)
        /\ UNCHANGED <<now, activities, sessions, challenges, req, topics, subtopics,
                       settings>>

\* what GET /challenge/timer/status computes at time t on a server tz seconds
\* ahead of UTC, for the active challenge or for none (Null)
TimerStatus(challenge, t, tz) ==
    LET daily == Countdown([end_date |-> t], t, tz)
        totalDaysRemaining ==
            IF challenge = Null THEN 0
            ELSE Max(0, CeilDiv(challenge[1].end_date - t, 24 * 3600))
        fullDaysRemaining == Max(0, totalDaysRemaining - 1)
    IN  [server_timestamp |-> t,
         daily_seconds_remaining |-> daily.daily_seconds_remaining,
         total_seconds_remaining |->
             IF challenge = Null THEN 0
             ELSE fullDaysRemaining * 16 * 3600 + daily.daily_seconds_remaining,
         total_days_remaining |-> totalDaysRemaining,
         is_active_hours |-> daily.is_active_hours,
         current_hour |-> LocalHour(t, tz)]

\* GET /challenge/timer/status on a server tz seconds ahead of UTC; the lookup
\* of the active challenge reads its data only
GetTimerStatus(tz, F) ==
    LET challenge == Single(ActiveChallenges(challenges), "challengeRead" \in F).data
    IN  /\ resp' = Reply("timerStatus", 0,
                         TimerStatus(IF challenge = Null THEN Null
                                     ELSE Some(challenges[challenge[1]]), now, tz))
        /\ UNCHANGED <<now, activities, sessions, challenges, progress, req, topics,
                       subtopics, settings>>

----------------------------------------------------------------------------
(* Topics and subtopics: DatabaseService, the calculation helpers and the
   /topics and /sub-topics routes *)

\* a field of a JSON body: a number, or a value of another type (a string);
\* a field the body does not have is not in the body's domain
Number(n) == [typeof |-> "number", value |-> n]
NotANumber == [typeof |-> "string", value |-> 0]

\* typeof data[field] === 'number'
IsNumber(body, field) == field \in DOMAIN body /\ body[field].typeof = "number"

TopicBodies == {[title |-> "Math", category |-> "Study", moneyPer5Reps |-> Number(m)] :
                   m \in {-1, 100}}
                   \cup {[title |-> "", category |-> "Study", moneyPer5Reps |-> Number(100)]}
SubtopicBodies == {[title |-> "Algebra", goalAmount |-> Number(g)] : g \in {0, 1500, 2000}}
                      \cup {[title |-> "", goalAmount |-> Number(2000)]}
DeltaInputs == {-7, -1, 3}             \* body.reps of POST /sub-topics/:id/reps

RECURSIVE Gcd(_, _)
Gcd(a, b) == IF b = 0 THEN a ELSE Gcd(b, a % b)

\* the number (completed / goal) * 100, as the fraction in lowest terms
Percent(completed, goal) ==
    LET g == Gcd(completed * 100, goal)
    IN  <<(completed * 100) \div g, goal \div g>>
Zero == <<0, 1>>

RECURSIVE Sum(_)
Sum(seq) == IF seq = <<>> THEN 0 ELSE Head(seq) + Sum(Tail(seq))

\* subtopics.reduce((sum, subtopic) => sum + subtopic.reps_completed, 0)
TotalRepsCompleted(subs) == Sum([i \in DOMAIN subs |-> subs[i].reps_completed])
TotalRepsGoal(subs) == Sum([i \in DOMAIN subs |-> subs[i].reps_goal])

\* earnings that floor each subtopic's reps on its own
calculateTopicEarningsPerSubtopic(subs, moneyPer5Reps) ==
    Sum([i \in DOMAIN subs |-> subs[i].reps_completed \div 5]) * moneyPer5Reps

\* Math.floor(totalReps / 5) * moneyPer5Reps
calculateTopicEarnings(subs, moneyPer5Reps) ==
    (TotalRepsCompleted(subs) \div 5) * moneyPer5Reps

calculateTopicCompletionPercentage(subs) ==
    IF Len(subs) = 0 THEN Zero
    ELSE IF TotalRepsGoal(subs) = 0 THEN Zero
    ELSE Percent(TotalRepsCompleted(subs), TotalRepsGoal(subs))

\* updateTopicCalculations: the topic with its two calculated fields
updateTopicCalculations(topic, subs) ==
    [topic EXCEPT !.earnings = calculateTopicEarnings(subs, topic.money_per_5_reps),
                  !.completion_percentage = calculateTopicCompletionPercentage(subs)]

\* DatabaseService.getTopicById / getSubtopicById: the row, null, or a throw
getTopicById(tps, id, F) == Single({id} \cap DOMAIN tps, "topicRead" \in F)
getSubtopicById(subs, id, F) ==
    Single({i \in {id} \cap DOMAIN subs : subs[i].topic_id # 0}, "subtopicRead" \in F)

\* DatabaseService.getSubtopicsByTopicId
getSubtopicsByTopicId(subs, topicId) == SelectSeq(subs, LAMBDA row : row.topic_id = topicId)

\* the row DatabaseService.createTopic inserts
NewTopic(body) ==
    [title |-> body.title, category |-> body.category,
     money_per_5_reps |-> body.moneyPer5Reps.value,
     earnings |-> 0, completion_percentage |-> Zero]

\* data.notes || '': the notes of a body, '' when it has none (a null or
\* empty notes is the body's notes "")
NotesOf(body) == IF "notes" \in DOMAIN body THEN body.notes ELSE ""

\* a row that takes reps_goal from the body when the body has one
NewSubtopicGoalFromBody(topicId, body) ==
    [topic_id |-> topicId, title |-> body.title, notes |-> NotesOf(body),
     goal_amount |-> body.goalAmount.value, reps_completed |-> 0,
     reps_goal |-> IF IsNumber(body, "repsGoal") THEN body.repsGoal.value ELSE 18]

\* the row DatabaseService.createSubtopic inserts
NewSubtopic(topicId, body) ==
    [topic_id |-> topicId, title |-> body.title, notes |-> NotesOf(body),
     goal_amount |-> body.goalAmount.value, reps_completed |-> 0, reps_goal |-> 18]

\* the topics table after the handlers' recalculation of topic topicId:
\* getSubtopicsByTopicId, updateTopicCalculations, updateTopic
Recalculated(tps, subs, topicId) ==
    LET updatedTopic == updateTopicCalculations(tps[topicId],
                                                getSubtopicsByTopicId(subs, topicId))
    IN  [tps EXCEPT ![topicId].earnings = updatedTopic.earnings,
                    ![topicId].completion_percentage = updatedTopic.completion_percentage]

\* POST /topics
PostTopic(body, F) ==
    /\ IF body.title = ""
       THEN /\ resp' = Response("createTopic", 400,
                                "Title is required and must be a non-empty string", 0)
            /\ UNCHANGED topics
       ELSE IF body.category = ""
       THEN /\ resp' = Response("createTopic", 400,
                                "Category is required and must be a non-empty string", 0)
            /\ UNCHANGED topics
       ELSE IF ~IsNumber(body, "moneyPer5Reps") \/ body.moneyPer5Reps.value < 0
       THEN /\ resp' = Response("createTopic", 400, "moneyPer5Reps must be a positive number", 0)
            /\ UNCHANGED topics
       ELSE IF "topicWrite" \in F
       THEN /\ resp' = Response("createTopic", 500, "Failed to create topic", 0)
            /\ UNCHANGED topics
       ELSE /\ topics' = Append(topics, NewTopic(body))
            /\ resp' = Response("createTopic", 201, "", Len(topics) + 1)
    /\ UNCHANGED <<now, activities, sessions, challenges, progress, req, subtopics, settings>>

\* transformTopicToApiFormat: the fields of the answer the claims read
TopicApiFormat(topic) ==
    [title |-> topic.title, category |-> topic.category,
     moneyPer5Reps |-> topic.money_per_5_reps,
     earnings |-> topic.earnings, completionPercentage |-> topic.completion_percentage]

\* a read that answers with the stored values
GetTopicStored(topicId, F) ==
    LET topic == getTopicById(topics, topicId, F)
    IN  /\ resp' = IF topicId = 0
                   THEN Response("getTopic", 400, "Invalid topic ID format", 0)
                   ELSE IF topic.error = "failed"
                   THEN Response("getTopic", 500, "Failed to fetch topic", 0)
                   ELSE IF topic.data = Null
                   THEN Response("getTopic", 404, "Topic not found", 0)
                   ELSE Reply("getTopic", topicId, TopicApiFormat(topics[topicId]))
        /\ UNCHANGED <<now, activities, sessions, challenges, progress, req, topics,
                       subtopics, settings>>

\* GET /topics/:topicId; topicId 0 is an id that is not a UUID
GetTopic(topicId, F) ==
    LET topic == getTopicById(topics, topicId, F)
        Fail == Response("getTopic", 500, "Failed to fetch topic", 0)
    IN  /\ IF topicId = 0
           THEN /\ resp' = Response("getTopic", 400, "Invalid topic ID format", 0)
                /\ UNCHANGED topics
           ELSE IF topic.error = "failed"
           THEN resp' = Fail /\ UNCHANGED topics
           ELSE IF topic.data = Null
           THEN /\ resp' = Response("getTopic", 404, "Topic not found", 0)
                /\ UNCHANGED topics
           ELSE IF "subtopicsRead" \in F \/ "topicWrite" \in F
           THEN resp' = Fail /\ UNCHANGED topics
           ELSE LET updatedTopic ==
                        updateTopicCalculations(topics[topicId],
                                                getSubtopicsByTopicId(subtopics, topicId))
                IN  /\ topics' = Recalculated(topics, subtopics, topicId)
                    /\ resp' = Reply("getTopic", topicId, TopicApiFormat(updatedTopic))
        /\ UNCHANGED <<now, activities, sessions, challenges, progress, req, subtopics,
                       settings>>

\* a validation that lets any moneyPer5Reps through
validateUpdateTopicAnyRate(body) ==
    IF "title" \in DOMAIN body /\ body.title = "" THEN "Title must be a non-empty string"
    ELSE IF "category" \in DOMAIN body /\ body.category = ""
    THEN "Category must be a non-empty string"
    ELSE ""

\* validateUpdateTopic: the message of the ValidationError, "" when valid;
\* a field the body does not have is not checked
validateUpdateTopic(body) ==
    IF "title" \in DOMAIN body /\ body.title = "" THEN "Title must be a non-empty string"
    ELSE IF "category" \in DOMAIN body /\ body.category = ""
    THEN "Category must be a non-empty string"
    ELSE IF "moneyPer5Reps" \notin DOMAIN body THEN ""
    ELSE IF ~IsNumber(body, "moneyPer5Reps") \/ body.moneyPer5Reps.value < 0
    THEN "moneyPer5Reps must be a positive number"
    ELSE ""

\* the column a field of the update body is written to
TopicColumn(field) == IF field = "moneyPer5Reps" THEN "money_per_5_reps" ELSE field

\* dbUpdates of PUT /topics/:topicId: the validated fields, renamed
TopicDbUpdates(body) ==
    [c \in {TopicColumn(f) : f \in DOMAIN body \cap {"title", "category", "moneyPer5Reps"}} |->
        IF c = "money_per_5_reps" THEN body.moneyPer5Reps.value ELSE body[c]]

\* PUT /topics/:topicId; topicId 0 is an id that is not a UUID
PutTopic(topicId, body, F) ==
    LET existingTopic == getTopicById(topics, topicId, F)
        Fail == Response("updateTopic", 500, "Failed to update topic", 0)
    IN  /\ IF topicId = 0
           THEN /\ resp' = Response("updateTopic", 400, "Invalid topic ID format", 0)
                /\ UNCHANGED topics
           ELSE IF existingTopic.error = "failed"
           THEN resp' = Fail /\ UNCHANGED topics
           ELSE IF existingTopic.data = Null
           THEN /\ resp' = Response("updateTopic", 404, "Topic not found", 0)
                /\ UNCHANGED topics
           ELSE IF validateUpdateTopic(body) # ""
           THEN /\ resp' = Response("updateTopic", 400, validateUpdateTopic(body), 0)
                /\ UNCHANGED topics
           ELSE IF "topicWrite" \in F
           THEN resp' = Fail /\ UNCHANGED topics
           ELSE
           LET updated == [topics EXCEPT ![topicId] = Merge(@, TopicDbUpdates(body))]
               topicWithCalculations ==
                   updateTopicCalculations(updated[topicId],
                                           getSubtopicsByTopicId(subtopics, topicId))
           IN  IF "subtopicsRead" \in F
               THEN resp' = Fail /\ topics' = updated
               ELSE /\ topics' = Recalculated(updated, subtopics, topicId)
                    /\ resp' = Reply("updateTopic", topicId,
                                     TopicApiFormat(topicWithCalculations))
        /\ UNCHANGED <<now, activities, sessions, challenges, progress, req, subtopics,
                       settings>>

\* a validation without the multiple-of-1000 rule
validateCreateSubtopicAnyAmount(body) ==
    IF body.title = "" THEN "Title is required and must be a non-empty string"
    ELSE IF ~IsNumber(body, "goalAmount") \/ body.goalAmount.value <= 0
    THEN "goalAmount must be a positive number"
    ELSE ""

\* validateCreateSubtopic: the message of the ValidationError, "" when valid
validateCreateSubtopic(body) ==
    IF body.title = "" THEN "Title is required and must be a non-empty string"
    ELSE IF ~IsNumber(body, "goalAmount") \/ body.goalAmount.value <= 0
    THEN "goalAmount must be a positive number"
    ELSE IF body.goalAmount.value % 1000 # 0 THEN "goalAmount must be a multiple of 1000"
    ELSE ""

\* POST /sub-topics/topics/:topicId/sub-topics; topicId 0 is an id that is
\* not a UUID
PostSubtopic(topicId, body, F) ==
    LET topic == getTopicById(topics, topicId, F)
        created == Append(subtopics, NewSubtopic(topicId, body))
        Fail == Response("createSubtopic", 500, "Failed to create subtopic", 0)
    IN  /\ IF topicId = 0
           THEN /\ resp' = Response("createSubtopic", 400, "Invalid topic ID format", 0)
                /\ UNCHANGED <<topics, subtopics>>
           ELSE IF topic.error = "failed"
           THEN resp' = Fail /\ UNCHANGED <<topics, subtopics>>
           ELSE IF topic.data = Null
           THEN /\ resp' = Response("createSubtopic", 404, "Topic not found", 0)
                /\ UNCHANGED <<topics, subtopics>>
           ELSE IF validateCreateSubtopic(body) # ""
           THEN /\ resp' = Response("createSubtopic", 400, validateCreateSubtopic(body), 0)
                /\ UNCHANGED <<topics, subtopics>>
           ELSE IF "subtopicWrite" \in F
           THEN resp' = Fail /\ UNCHANGED <<topics, subtopics>>
           ELSE IF "subtopicsRead" \in F \/ "topicWrite" \in F
           THEN resp' = Fail /\ subtopics' = created /\ UNCHANGED topics
           ELSE /\ subtopics' = created
                /\ topics' = Recalculated(topics, created, topicId)
                /\ resp' = Response("createSubtopic", 201, "", Len(created))
        /\ UNCHANGED <<now, activities, sessions, challenges, progress, req, settings>>

\* validateUpdateSubtopic: the message of the ValidationError, "" when valid;
\* a field the body does not have is not checked
validateUpdateSubtopic(body) ==
    IF "title" \in DOMAIN body /\ body.title = "" THEN "Title must be a non-empty string"
    ELSE IF "goalAmount" \notin DOMAIN body THEN ""
    ELSE IF ~IsNumber(body, "goalAmount") \/ body.goalAmount.value <= 0
    THEN "goalAmount must be a positive number"
    ELSE IF body.goalAmount.value % 1000 # 0 THEN "goalAmount must be a multiple of 1000"
    ELSE ""

\* dbUpdates of PUT /sub-topics/:subtopicId: the validated fields, renamed
SubtopicDbUpdates(body) ==
    [f \in {g \in {"title", "notes", "goal_amount"} :
                IF g = "goal_amount" THEN "goalAmount" \in DOMAIN body
                ELSE g \in DOMAIN body} |->
        IF f = "goal_amount" THEN body.goalAmount.value ELSE body[f]]

\* an update that recalculates the parent topic as the reps route does
PutSubtopicRecalculating(subtopicId, body, F) ==
    LET existingSubtopic == getSubtopicById(subtopics, subtopicId, F)
        Fail == Response("updateSubtopic", 500, "Failed to update subtopic", 0)
    IN  /\ IF subtopicId = 0
           THEN /\ resp' = Response("updateSubtopic", 400, "Invalid subtopic ID format", 0)
                /\ UNCHANGED <<topics, subtopics>>
           ELSE IF existingSubtopic.error = "failed"
           THEN resp' = Fail /\ UNCHANGED <<topics, subtopics>>
           ELSE IF existingSubtopic.data = Null
           THEN /\ resp' = Response("updateSubtopic", 404, "Subtopic not found", 0)
                /\ UNCHANGED <<topics, subtopics>>
           ELSE IF validateUpdateSubtopic(body) # ""
           THEN /\ resp' = Response("updateSubtopic", 400, validateUpdateSubtopic(body), 0)
                /\ UNCHANGED <<topics, subtopics>>
           ELSE IF "subtopicWrite" \in F
           THEN resp' = Fail /\ UNCHANGED <<topics, subtopics>>
           ELSE /\ subtopics' = [subtopics EXCEPT
                                     ![subtopicId] = Merge(@, SubtopicDbUpdates(body))]
                /\ topics' = Recalculated(topics, subtopics, subtopics[subtopicId].topic_id)
                /\ resp' = Response("updateSubtopic", 200, "", subtopicId)
        /\ UNCHANGED <<now, activities, sessions, challenges, progress, req, settings>>

\* PUT /sub-topics/:subtopicId; subtopicId 0 is an id that is not a UUID
PutSubtopic(subtopicId, body, F) ==
    LET existingSubtopic == getSubtopicById(subtopics, subtopicId, F)
        Fail == Response("updateSubtopic", 500, "Failed to update subtopic", 0)
    IN  /\ IF subtopicId = 0
           THEN /\ resp' = Response("updateSubtopic", 400, "Invalid subtopic ID format", 0)
                /\ UNCHANGED subtopics
           ELSE IF existingSubtopic.error = "failed"
           THEN resp' = Fail /\ UNCHANGED subtopics
           ELSE IF existingSubtopic.data = Null
           THEN /\ resp' = Response("updateSubtopic", 404, "Subtopic not found", 0)
                /\ UNCHANGED subtopics
           ELSE IF validateUpdateSubtopic(body) # ""
           THEN /\ resp' = Response("updateSubtopic", 400, validateUpdateSubtopic(body), 0)
                /\ UNCHANGED subtopics
           ELSE IF "subtopicWrite" \in F
           THEN resp' = Fail /\ UNCHANGED subtopics
           ELSE /\ subtopics' = [subtopics EXCEPT
                                     ![subtopicId] = Merge(@, SubtopicDbUpdates(body))]
                /\ resp' = Response("updateSubtopic", 200, "", subtopicId)
        /\ UNCHANGED <<now, activities, sessions, challenges, progress, req, topics,
                       settings>>

\* DatabaseService.deleteSubtopic: delete().eq('id', id). Ids are positions in
\* the table, so the deleted row leaves a gap: a row of no topic (topic_id 0),
\* which no lookup returns
deleteSubtopic(subs, id) ==
    IF id \in DOMAIN subs THEN [subs EXCEPT ![id].topic_id = 0] ELSE subs

\* a call of DatabaseService.deleteSubtopic, which no route makes: the call
\* returns nothing, or throws when the datastore fails
DeleteSubtopic(id, F) ==
    /\ IF "subtopicWrite" \in F
       THEN /\ resp' = Response("deleteSubtopic", 0, "Failed to delete subtopic", 0)
            /\ UNCHANGED subtopics
       ELSE /\ subtopics' = deleteSubtopic(subtopics, id)
            /\ resp' = Response("deleteSubtopic", 0, "", id)
    /\ UNCHANGED <<now, activities, sessions, challenges, progress, req, topics, settings>>

\* an adjustment that does not clamp at zero
NewRepsCompletedUnclamped(current, delta) == current + delta

\* Math.max(0, existingSubtopic.reps_completed + validatedData.reps)
NewRepsCompleted(current, delta) == Max(0, current + delta)

\* POST /sub-topics/:subtopicId/reps; subtopicId 0 is an id that is not a UUID
PostSubtopicReps(subtopicId, body, F) ==
    LET existingSubtopic == getSubtopicById(subtopics, subtopicId, F)
        Fail == Response("addReps", 500, "Failed to update reps", 0)
    IN  /\ IF subtopicId = 0
           THEN /\ resp' = Response("addReps", 400, "Invalid subtopic ID format", 0)
                /\ UNCHANGED <<topics, subtopics>>
           ELSE IF existingSubtopic.error = "failed"
           THEN resp' = Fail /\ UNCHANGED <<topics, subtopics>>
           ELSE IF existingSubtopic.data = Null
           THEN /\ resp' = Response("addReps", 404, "Subtopic not found", 0)
                /\ UNCHANGED <<topics, subtopics>>
           ELSE IF ~IsNumber(body, "reps")
           THEN /\ resp' = Response("addReps", 400, "reps must be a number", 0)
                /\ UNCHANGED <<topics, subtopics>>
           ELSE IF "subtopicWrite" \in F
           THEN resp' = Fail /\ UNCHANGED <<topics, subtopics>>
           ELSE
           LET row == subtopics[subtopicId]
               newRepsCompleted == NewRepsCompleted(row.reps_completed, body.reps.value)
               updated == [subtopics EXCEPT ![subtopicId].reps_completed = newRepsCompleted]
               topic == getTopicById(topics, row.topic_id, F)
           IN  IF topic.error = "failed"
               THEN resp' = Fail /\ subtopics' = updated /\ UNCHANGED topics
               ELSE IF topic.data = Null
               THEN /\ resp' = Response("addReps", 500, "Parent topic not found", 0)
                    /\ subtopics' = updated
                    /\ UNCHANGED topics
               ELSE IF "subtopicsRead" \in F \/ "topicWrite" \in F
               THEN resp' = Fail /\ subtopics' = updated /\ UNCHANGED topics
               ELSE /\ subtopics' = updated
                    /\ topics' = Recalculated(topics, updated, row.topic_id)
                    /\ resp' = Response("addReps", 200, "", subtopicId)
        /\ UNCHANGED <<now, activities, sessions, challenges, progress, req, settings>>

\* POST /sub-topics/:subtopicId/reps of request r up to its first datastore
\* call, getSubtopicById, and the new count computed from the row it returns
AddRepsRead(r, subtopicId, body, F) ==
    LET existingSubtopic == getSubtopicById(subtopics, subtopicId, F)
        Fail == Response("addReps", 500, "Failed to update reps", 0)
    IN  /\ req[r].pc = "idle"
        /\ IF subtopicId = 0
           THEN /\ resp' = Response("addReps", 400, "Invalid subtopic ID format", 0)
                /\ UNCHANGED req
           ELSE IF existingSubtopic.error = "failed"
           THEN resp' = Fail /\ UNCHANGED req
           ELSE IF existingSubtopic.data = Null
           THEN /\ resp' = Response("addReps", 404, "Subtopic not found", 0)
                /\ UNCHANGED req
           ELSE IF ~IsNumber(body, "reps")
           THEN /\ resp' = Response("addReps", 400, "reps must be a number", 0)
                /\ UNCHANGED req
           ELSE /\ req' = [req EXCEPT ![r] =
                    [Idle EXCEPT !.pc = "addRepsWrite", !.id = subtopicId,
                        !.data = [topic_id |-> subtopics[subtopicId].topic_id,
                                  reps |-> body.reps.value,
                                  reps_completed |->
                                      NewRepsCompleted(subtopics[subtopicId].reps_completed,
                                                       body.reps.value)]]]
                /\ UNCHANGED resp
        /\ UNCHANGED <<now, activities, sessions, challenges, progress, topics, subtopics,
                       settings>>

\* db.updateSubtopic(subtopicId, { reps_completed: newRepsCompleted })
AddRepsWrite(r, F) ==
    /\ req[r].pc = "addRepsWrite"
    /\ IF "subtopicWrite" \in F
       THEN /\ resp' = Response("addReps", 500, "Failed to update reps", 0)
            /\ req' = [req EXCEPT ![r] = Idle]
            /\ UNCHANGED subtopics
       ELSE /\ subtopics' = [subtopics EXCEPT
                                ![req[r].id].reps_completed = req[r].data.reps_completed]
            /\ req' = [req EXCEPT ![r].pc = "addRepsRecalculate"]
            /\ UNCHANGED resp
    /\ UNCHANGED <<now, activities, sessions, challenges, progress, topics, settings>>

\* db.getTopicById, db.getSubtopicsByTopicId and updateTopicCalculations on
\* the rows they return
AddRepsRecalculate(r, F) ==
    LET topicId == req[r].data.topic_id
        topic == getTopicById(topics, topicId, F)
    IN  /\ req[r].pc = "addRepsRecalculate"
        /\ IF topic.error = "failed" \/ "subtopicsRead" \in F
           THEN /\ resp' = Response("addReps", 500, "Failed to update reps", 0)
                /\ req' = [req EXCEPT ![r] = Idle]
           ELSE IF topic.data = Null
           THEN /\ resp' = Response("addReps", 500, "Parent topic not found", 0)
                /\ req' = [req EXCEPT ![r] = Idle]
           ELSE /\ req' = [req EXCEPT ![r].pc = "addRepsTopicWrite",
                                      ![r].data = updateTopicCalculations(topics[topicId],
                                                      getSubtopicsByTopicId(subtopics, topicId))
                                                  @@ req[r].data]
                /\ UNCHANGED resp
        /\ UNCHANGED <<now, activities, sessions, challenges, progress, topics, subtopics,
                       settings>>

\* db.updateTopic(existingSubtopic.topic_id, { earnings, completion_percentage })
\* and the response; a request that answered 200 stays at "done"
AddRepsTopicWrite(r, F) ==
    LET updatedTopic == req[r].data
    IN  /\ req[r].pc = "addRepsTopicWrite"
        /\ IF "topicWrite" \in F
           THEN /\ resp' = Response("addReps", 500, "Failed to update reps", 0)
                /\ req' = [req EXCEPT ![r] = Idle]
                /\ UNCHANGED topics
           ELSE /\ topics' = [topics EXCEPT
                    ![updatedTopic.topic_id].earnings = updatedTopic.earnings,
                    ![updatedTopic.topic_id].completion_percentage =
                        updatedTopic.completion_percentage]
                /\ resp' = Response("addReps", 200, "", req[r].id)
                /\ req' = [req EXCEPT ![r].pc = "done"]
        /\ UNCHANGED <<now, activities, sessions, challenges, progress, subtopics, settings>>

\* validateUpdateGlobalGoal: the message of the ValidationError, "" when valid
validateUpdateGlobalGoal(body) ==
    IF ~IsNumber(body, "globalGoal") \/ body.globalGoal.value <= 0
    THEN "globalGoal must be a positive number"
    ELSE ""

\* DatabaseService.updateGlobalSetting: upsert of the row of the key
updateGlobalSetting(rows, key, value) ==
    {row \in rows : row.key # key} \cup {[key |-> key, value |-> value]}

\* calculateTotalEarnings over the earnings computed for every topic
CurrentEarnings(tps, subs) ==
    Sum([t \in DOMAIN tps |->
            calculateTopicEarnings(getSubtopicsByTopicId(subs, t), tps[t].money_per_5_reps)])

\* PUT /dashboard/global-goal
PutGlobalGoal(body, F) ==
    LET Fail == Response("updateGlobalGoal", 500, "Failed to update global goal", 0)
    IN  /\ IF validateUpdateGlobalGoal(body) # ""
           THEN /\ resp' = Response("updateGlobalGoal", 400,
                                    validateUpdateGlobalGoal(body), 0)
                /\ UNCHANGED settings
           ELSE IF "settingWrite" \in F
           THEN resp' = Fail /\ UNCHANGED settings
           ELSE /\ settings' = updateGlobalSetting(settings, "global_goal",
                                                   body.globalGoal.value)
                /\ resp' = IF "topicsRead" \in F \/ "subtopicsRead" \in F THEN Fail
                           ELSE Reply("updateGlobalGoal", 0,
                                      [globalGoal |-> body.globalGoal.value,
                                       currentEarnings |-> CurrentEarnings(topics, subtopics)])
        /\ UNCHANGED <<now, activities, sessions, challenges, progress, req, topics,
                       subtopics>>

\* the topics table after every topic's recalculation
RECURSIVE RecalculatedAll(_, _, _)
RecalculatedAll(tps, subs, n) ==
    IF n = 0 THEN tps ELSE Recalculated(RecalculatedAll(tps, subs, n - 1), subs, n)

\* globalGoalSetting?.value || 5000
GlobalGoal(rows) ==
    LET found == {row \in rows : row.key = "global_goal" /\ row.value # 0}
    IN  IF found = {} THEN 5000 ELSE (CHOOSE row \in found : TRUE).value

\* a dashboard that answers from the stored earnings and writes nothing
GetDashboardStored(F) ==
    /\ resp' = IF F # {}
               THEN Response("getDashboard", 500, "Failed to fetch dashboard data", 0)
               ELSE Reply("getDashboard", 0,
                          [globalGoal |-> GlobalGoal(settings),
                           currentEarnings |->
                               Sum([t \in DOMAIN topics |-> topics[t].earnings])])
    /\ UNCHANGED <<now, activities, sessions, challenges, progress, req, topics, subtopics,
                   settings>>

\* GET /dashboard: every topic is recalculated and written
GetDashboard(F) ==
    /\ IF F # {}
       THEN /\ resp' = Response("getDashboard", 500, "Failed to fetch dashboard data", 0)
            /\ UNCHANGED topics
       ELSE /\ topics' = RecalculatedAll(topics, subtopics, Len(topics))
            /\ resp' = Reply("getDashboard", 0,
                             [globalGoal |-> GlobalGoal(settings),
                              currentEarnings |-> CurrentEarnings(topics, subtopics)])
    /\ UNCHANGED <<now, activities, sessions, challenges, progress, req, subtopics, settings>>

----------------------------------------------------------------------------
(* The clock *)

Tick(d) ==
    /\ now + d <= StartClock + MaxElapsed
    /\ now' = now + d
    /\ UNCHANGED <<activities, sessions, challenges, progress, resp, req, topics, subtopics, settings>>

\* a long step of the clock
Sleep(d) ==
    /\ now + d <= StartClock + MaxElapsed + MaxSlept
    /\ now' = now + d
    /\ UNCHANGED <<activities, sessions, challenges, progress, resp, req, topics, subtopics,
                   settings>>

----------------------------------------------------------------------------
(* Specifications *)

\* the sample data the deployment loads, an empty session log, no challenge
Init ==
    /\ now = StartClock
    /\ activities = <<[name |-> "Focus Hour", reps |-> 0],
                      [name |-> "Push-ups", reps |-> 0]>>
    /\ sessions = <<>>
    /\ challenges = <<>>
    /\ progress = <<>>
    /\ resp = NoResponse
    /\ req = [r \in 1..MaxRequests |-> Idle]
    /\ topics = <<>>
    /\ subtopics = <<>>
    /\ settings = {}

\* the calls that may fail when the datastore answers every request: the rpc
\* increment_activity_reps may be missing from the database
Reliable == {{}, {"rpc"}}

\* Start-session and end-session requests, one at a time, against a datastore
\* that answers
Next ==
    \/ \E d \in TickSeconds : Tick(d)
    \/ \E a \in 1..Len(activities), t \in SessionTypeInputs :
           PostSessionStart(a, t, 0, {}) /\ Len(sessions') <= MaxSessions
    \/ \E sid \in 1..(Len(sessions) + 1), F \in Reliable : PostSessionEnd(sid, F)

Spec == Init /\ [][Next]_vars

\* The same requests, the datastore's clock (which stamps start_time) at times
\* ahead of the server's
NextClock ==
    \/ \E d \in TickSeconds : Tick(d)
    \/ \E a \in 1..Len(activities), k \in DbClockSkew :
           PostSessionStart(a, "none", k, {}) /\ Len(sessions') <= MaxSessions
    \/ \E sid \in 1..(Len(sessions) + 1), F \in Reliable : PostSessionEnd(sid, F)

SpecClock == Init /\ [][NextClock]_vars

\* Sessions, activities named for the Focus Hour side effect and challenges,
\* one request at a time, against a datastore that answers
NextFocus ==
    \/ Tick(60)
    \/ PostActivity("FOCUSSED TIME", {}) /\ Len(activities') <= MaxActivities
    \/ \E a \in 1..Len(activities) :
           PostSessionStart(a, "none", 0, {}) /\ Len(sessions') <= MaxSessions
    \/ \E sid \in 1..(Len(sessions) + 1), F \in Reliable : PostSessionEnd(sid, F)
    \/ \E g \in GoalHoursInputs :
           PostChallenge(g, {}) /\ Len(challenges') <= MaxChallenges

SpecFocus == Init /\ [][NextFocus]_vars

\* the datastore calls of endSession's Focus Hour side effect
SideEffectCalls == {"activityName", "rpc", "activityRead", "activityWrite",
                    "challengeRead", "progressRead", "progressWrite"}

\* the calls that fail during one end-session request: none, any one of the
\* side effect's, or the rpc together with a call of the manual increment
FaultSets == {{}} \cup {{c} : c \in SideEffectCalls}
                 \cup {{"rpc", "activityRead"}, {"rpc", "activityWrite"}}

\* The same requests, datastore calls of the side effect failing
NextFault ==
    \/ Tick(60)
    \/ \E a \in 1..Len(activities) :
           PostSessionStart(a, "none", 0, {}) /\ Len(sessions') <= MaxFaultSessions
    \/ \E sid \in 1..(Len(sessions) + 1), F \in FaultSets : PostSessionEnd(sid, F)
    \/ \E g \in GoalHoursInputs :
           PostChallenge(g, {}) /\ Len(challenges') <= MaxChallenges

SpecFault == Init /\ [][NextFault]_vars

\* the bodies of PUT /activities/:id: a reps field or a name field
UpdateBodies == {[reps |-> r] : r \in RepsInputs} \cup {[name |-> "FOCUSSED TIME"]}

\* Create, update, increment and decrement requests, one at a time
NextReps ==
    \/ \E n \in NameInputs : PostActivity(n, {}) /\ Len(activities') <= MaxActivities
    \/ \E id \in 1..(Len(activities) + 1), u \in UpdateBodies : PutActivity(id, u, {})
    \/ \E id \in 1..(Len(activities) + 1), b \in IncrementInputs, F \in Reliable :
           PostIncrement(id, b, F)
    \/ \E id \in 1..(Len(activities) + 1), b \in DecrementInputs :
           PostDecrement(id, b, {})

SpecReps == Init /\ [][NextReps]_vars

\* Start-session requests whose lookup and insert are separate steps, so that
\* the calls of two requests interleave; every session row is counted when its
\* request passes the lookup
NextRace ==
    \/ \E r \in 1..MaxRequests, a \in 1..Len(activities) :
           /\ Len(sessions) + Cardinality({q \in 1..MaxRequests : req[q].pc = "startInsert"})
                  < MaxSessions
           /\ StartSessionCheck(r, a, "none")
    \/ \E r \in 1..MaxRequests : StartSessionInsert(r, {})
    \/ \E sid \in 1..(Len(sessions) + 1) : PostSessionEnd(sid, {})
    \/ \E d \in TickSeconds : Tick(d)

SpecRace == Init /\ [][NextRace]_vars

\* Create-challenge requests whose three datastore calls are separate steps
NextChallenge ==
    \/ \E r \in 1..MaxRequests, g \in GoalHoursInputs :
           /\ Len(challenges) + Cardinality({q \in 1..MaxRequests : req[q].pc = "challengeInsert"})
                  < MaxCreated
           /\ ChallengeDeactivate(r, g, {})
    \/ \E r \in 1..MaxRequests : ChallengeInsert(r, {})
    \/ \E r \in 1..MaxRequests : ChallengeProgress(r, {})
    \/ \E d \in TickSeconds : Tick(d)

SpecChallenge == Init /\ [][NextChallenge]_vars

\* Create-topic, create-subtopic and adjust-reps requests, one at a time,
\* against a datastore that answers
NextTopics ==
    \/ \E body \in TopicBodies : PostTopic(body, {}) /\ Len(topics') <= MaxTopics
    \/ \E t \in 0..(Len(topics) + 1), body \in SubtopicBodies :
           PostSubtopic(t, body, {}) /\ Len(subtopics') <= MaxSubtopics
    \/ \E id \in 0..(Len(subtopics) + 1), delta \in DeltaInputs :
           /\ PostSubtopicReps(id, [reps |-> Number(delta)], {})
           /\ \A i \in DOMAIN subtopics' : subtopics'[i].reps_completed <= MaxRepsCompleted

SpecTopics == Init /\ [][NextTopics]_vars

\* the calls that fail while a reps adjustment runs: the write of the parent
\* topic, which leaves the topic row with the values computed before
StaleFaults == {{"topicWrite"}}

\* Topic reads among create requests and reps adjustments whose write of the
\* parent topic fails
NextRead ==
    \/ \E body \in TopicBodies : PostTopic(body, {}) /\ Len(topics') <= MaxTopics
    \/ \E t \in 1..Len(topics), body \in SubtopicBodies :
           PostSubtopic(t, body, {}) /\ Len(subtopics') <= MaxSubtopics
    \/ \E id \in 1..Len(subtopics), F \in StaleFaults :
           /\ PostSubtopicReps(id, [reps |-> Number(3)], F)
           /\ \A i \in DOMAIN subtopics' : subtopics'[i].reps_completed <= MaxRepsCompleted
    \/ \E t \in 0..(Len(topics) + 1) : GetTopic(t, {})

SpecRead == Init /\ [][NextRead]_vars

\* money_per_5_reps of the stored topic the calculations are applied to
RateInputs == {0, 1, 100}

\* the subtopic tables of up to n rows, all of topic 1, with every reps_completed
\* the /reps route can have stored
RECURSIVE SubtopicTables(_)
SubtopicTables(n) ==
    IF n = 0 THEN {<<>>}
    ELSE LET shorter == SubtopicTables(n - 1)
         IN  shorter \cup
             {Append(t, [NewSubtopic(1, [title |-> "Algebra", goalAmount |-> Number(2000)])
                             EXCEPT !.reps_completed = r]) :
                  t \in {u \in shorter : Len(u) = n - 1}, r \in 0..MaxRepsCompleted}

\* one stored topic of any rate with any stored subtopics, its calculated
\* fields not yet written
InitCalculation ==
    /\ now = StartClock
    /\ activities = <<>>
    /\ sessions = <<>>
    /\ challenges = <<>>
    /\ progress = <<>>
    /\ resp = NoResponse
    /\ req = [r \in 1..MaxRequests |-> Idle]
    /\ \E m \in RateInputs :
           topics = <<NewTopic([title |-> "Math", category |-> "Study",
                                moneyPer5Reps |-> Number(m)])>>
    /\ subtopics \in SubtopicTables(MaxSubtopics)
    /\ settings = {}

\* The calculations applied to every such topic by a read
NextCalculation == \E t \in 1..Len(topics) : GetTopic(t, {})

SpecCalculation == InitCalculation /\ [][NextCalculation]_vars

\* the bodies of create-subtopic: accepted ones (one of them asking for a
\* repsGoal of its own) and ones a rule of validateCreateSubtopic rejects
CreateSubtopicBodies ==
    {[title |-> "Algebra", goalAmount |-> Number(2000)],
     [title |-> "Algebra", goalAmount |-> Number(4000), repsGoal |-> Number(5)],
     [title |-> "Algebra", goalAmount |-> Number(1500)],
     [title |-> "Algebra", goalAmount |-> Number(0)],
     [title |-> "Algebra", goalAmount |-> Number(-1000)],
     [title |-> "Algebra", goalAmount |-> NotANumber],
     [title |-> "Algebra"],
     [title |-> "", goalAmount |-> Number(2000)]}

\* the bodies of update-subtopic
UpdateSubtopicBodies ==
    {[goalAmount |-> Number(3000), repsGoal |-> Number(5)],
     [goalAmount |-> Number(1500)],
     [goalAmount |-> Number(-1000)],
     [goalAmount |-> NotANumber],
     [title |-> ""],
     [repsGoal |-> Number(5)]}

\* the bodies of these that the validation rejects
RejectedSubtopicBodies ==
    {[title |-> "Algebra", goalAmount |-> Number(1500)],
     [title |-> "Algebra", goalAmount |-> Number(0)],
     [title |-> "Algebra", goalAmount |-> Number(-1000)],
     [title |-> "Algebra", goalAmount |-> NotANumber],
     [title |-> "Algebra"],
     [goalAmount |-> Number(1500)],
     [goalAmount |-> Number(-1000)],
     [goalAmount |-> NotANumber]}

\* Create-subtopic, update-subtopic and adjust-reps requests, one at a time
NextSubtopics ==
    \/ PostTopic([title |-> "Math", category |-> "Study", moneyPer5Reps |-> Number(100)], {})
           /\ Len(topics') <= MaxTopics
    \/ \E t \in 0..(Len(topics) + 1), body \in CreateSubtopicBodies :
           PostSubtopic(t, body, {}) /\ Len(subtopics') <= MaxValidated
    \/ \E id \in 0..(Len(subtopics) + 1), body \in UpdateSubtopicBodies :
           PutSubtopic(id, body, {})
    \/ \E id \in 1..Len(subtopics) :
           /\ PostSubtopicReps(id, [reps |-> Number(3)], {})
           /\ \A i \in DOMAIN subtopics' : subtopics'[i].reps_completed <= MaxRepsCompleted

SpecSubtopics == Init /\ [][NextSubtopics]_vars

\* create-topic bodies a rule of validateCreateTopic rejects
RejectedCreateTopicBodies ==
    {[title |-> "", category |-> "Study", moneyPer5Reps |-> Number(100)],
     [title |-> "Math", category |-> "", moneyPer5Reps |-> Number(100)],
     [title |-> "Math", category |-> "Study", moneyPer5Reps |-> Number(-1)],
     [title |-> "Math", category |-> "Study", moneyPer5Reps |-> NotANumber],
     [title |-> "Math", category |-> "Study"]}

\* update-topic bodies a rule of validateUpdateTopic rejects
RejectedUpdateTopicBodies ==
    {[title |-> ""], [category |-> ""], [moneyPer5Reps |-> Number(-1)],
     [moneyPer5Reps |-> NotANumber], [title |-> "Maths", moneyPer5Reps |-> Number(-1)]}

\* update-topic bodies validateUpdateTopic accepts
AcceptedUpdateTopicBodies == {[moneyPer5Reps |-> Number(0)], [title |-> "Math"]}

\* create-subtopic and update-subtopic bodies the validation rejects
RejectedCreateSubtopicBodies ==
    {[title |-> "", goalAmount |-> Number(2000)],
     [title |-> "Algebra", goalAmount |-> Number(1500)],
     [title |-> "Algebra", goalAmount |-> Number(0)],
     [title |-> "Algebra", goalAmount |-> NotANumber],
     [title |-> "Algebra"]}
RejectedUpdateSubtopicBodies ==
    {[title |-> ""], [goalAmount |-> Number(1500)], [goalAmount |-> Number(-1000)],
     [goalAmount |-> NotANumber], [title |-> "Geometry", goalAmount |-> Number(0)]}

\* reps bodies validateAddReps rejects: reps of another type, no reps
RejectedRepsBodies == {[reps |-> NotANumber], [amount |-> Number(3)]}

\* global-goal bodies validateUpdateGlobalGoal rejects and accepts
RejectedGoalBodies ==
    {[globalGoal |-> Number(0)], [globalGoal |-> Number(-5000)],
     [globalGoal |-> NotANumber], [goal |-> Number(5000)]}
AcceptedGoalBodies == {[globalGoal |-> Number(8000)]}

\* The six validated requests, one at a time, with payloads the validation
\* accepts and payloads it rejects, on ids that exist, ids that do not and
\* ids that are not UUIDs
NextValidation ==
    \/ \E body \in RejectedCreateTopicBodies
                     \cup {[title |-> "Math", category |-> "Study",
                            moneyPer5Reps |-> Number(100)]} :
           PostTopic(body, {}) /\ Len(topics') <= MaxTopics
    \/ \E t \in 0..(Len(topics) + 1),
          body \in RejectedUpdateTopicBodies \cup AcceptedUpdateTopicBodies :
           PutTopic(t, body, {})
    \/ \E t \in 0..(Len(topics) + 1),
          body \in RejectedCreateSubtopicBodies
                       \cup {[title |-> "Algebra", goalAmount |-> Number(2000)]} :
           PostSubtopic(t, body, {}) /\ Len(subtopics') <= MaxValidated
    \/ \E id \in 0..(Len(subtopics) + 1),
          body \in RejectedUpdateSubtopicBodies \cup {[goalAmount |-> Number(2000)]} :
           PutSubtopic(id, body, {})
    \/ \E id \in 0..(Len(subtopics) + 1),
          body \in RejectedRepsBodies \cup {[reps |-> Number(5)]} :
           /\ PostSubtopicReps(id, body, {})
           /\ \A i \in DOMAIN subtopics' : subtopics'[i].reps_completed <= MaxRepsCompleted
    \/ \E body \in RejectedGoalBodies \cup AcceptedGoalBodies : PutGlobalGoal(body, {})

SpecValidation == Init /\ [][NextValidation]_vars

\* Id-based activity and session requests, one at a time, on ids that exist
\* and ids no row has, against a datastore that answers
NextNotFound ==
    \/ \E a \in 1..Len(activities), t \in SessionTypeInputs :
           PostSessionStart(a, t, 0, {}) /\ Len(sessions') <= MaxSessions
    \/ \E sid \in 1..(Len(sessions) + 1) : PostSessionEnd(sid, {})
    \/ \E id \in 1..(Len(activities) + 1), u \in UpdateBodies : PutActivity(id, u, {})
    \/ \E id \in 1..(Len(activities) + 1), b \in IncrementInputs, F \in Reliable :
           PostIncrement(id, b, F)
    \/ \E id \in 1..(Len(activities) + 1), b \in DecrementInputs :
           PostDecrement(id, b, {})

SpecNotFound == Init /\ [][NextNotFound]_vars

\* Countdown syncs on servers of three time zones, at times of day before,
\* within and after the active window and at its two ends, from before a
\* challenge starts until after it ends
NextCountdown ==
    \/ \E d \in TickSeconds : Tick(d)
    \/ Sleep(SleepSeconds)
    \/ PostChallenge(500, {}) /\ Len(challenges') <= MaxChallenges
    \/ \E tz \in TimezoneOffsets : PostCountdownSync(tz, {}) /\ Len(progress') <= MaxProgress

SpecCountdown == Init /\ [][NextCountdown]_vars

\* The requests that write challenge_progress: create-challenge, countdown
\* sync and Focus Hour session ends one at a time, get-current requests with
\* their three datastore calls as separate steps, over a change of date
NextProgress ==
    \/ \E d \in TickSeconds : Tick(d)
    \/ PostChallenge(500, {}) /\ Len(challenges') <= MaxChallenges
    \/ \E r \in 1..MaxRequests : CurrentChallenge(r, {})
    \/ \E r \in 1..MaxRequests : CurrentProgress(r, {})
    \/ \E r \in 1..MaxRequests : CurrentInsert(r, {}) /\ Len(progress') <= MaxProgress
    \/ PostCountdownSync(0, {}) /\ Len(progress') <= MaxProgress
    \/ PostSessionStart(1, "none", 0, {}) /\ Len(sessions') <= MaxFaultSessions
    \/ \E sid \in 1..Len(sessions) :
           PostSessionEnd(sid, {}) /\ Len(progress') <= MaxProgress

SpecProgress == Init /\ [][NextProgress]_vars

\* Subtopics created, given reps and deleted, one request at a time
NextDelete ==
    \/ PostTopic([title |-> "Math", category |-> "Study", moneyPer5Reps |-> Number(100)], {})
           /\ Len(topics') <= MaxTopics
    \/ \E t \in 1..Len(topics) :
           /\ PostSubtopic(t, [title |-> "Algebra", goalAmount |-> Number(2000)], {})
           /\ Len(subtopics') <= MaxSubtopics
    \/ \E id \in 1..Len(subtopics), delta \in DeltaInputs :
           /\ PostSubtopicReps(id, [reps |-> Number(delta)], {})
           /\ \A i \in DOMAIN subtopics' : subtopics'[i].reps_completed <= MaxRepsCompleted
    \/ \E id \in 1..(Len(subtopics) + 1) : DeleteSubtopic(id, {})
    \/ \E t \in 1..Len(topics) : GetTopic(t, {})

SpecDelete == Init /\ [][NextDelete]_vars

\* the bodies of update-subtopic with one, two or three of the fields, and
\* one with none of them
PartialUpdateBodies ==
    {[title |-> "Geometry"], [notes |-> "see chapter 2"], [notes |-> ""],
     [goalAmount |-> Number(3000)],
     [title |-> "Geometry", goalAmount |-> Number(3000)],
     [title |-> "Algebra", notes |-> "see chapter 2", goalAmount |-> Number(2000)],
     [repsGoal |-> Number(5)]}

\* Subtopic updates among creates and reps adjustments whose write of the
\* parent topic succeeds or fails, so that rows hold reps and topics hold
\* values computed before the last adjustment; one topic owns the subtopics
NextUpdate ==
    \/ /\ topics = <<>>
       /\ PostTopic([title |-> "Math", category |-> "Study", moneyPer5Reps |-> Number(100)], {})
    \/ \E t \in 1..Len(topics) :
           /\ PostSubtopic(t, [title |-> "Algebra", goalAmount |-> Number(2000)], {})
           /\ Len(subtopics') <= MaxValidated
    \/ \E id \in 1..Len(subtopics), F \in StaleFaults \cup {{}} :
           /\ PostSubtopicReps(id, [reps |-> Number(3)], F)
           /\ \A i \in DOMAIN subtopics' : subtopics'[i].reps_completed <= MaxRepsCompleted
    \/ \E id \in 0..(Len(subtopics) + 1), body \in PartialUpdateBodies :
           PutSubtopic(id, body, {})

SpecUpdate == Init /\ [][NextUpdate]_vars

\* End-session requests whose datastore calls are separate steps, on Focus
\* Hour sessions that have run for a minute or more
NextEndRace ==
    \/ Tick(60)
    \/ PostSessionStart(1, "none", 0, {}) /\ Len(sessions') <= MaxFaultSessions
    \/ PostChallenge(500, {}) /\ Len(challenges') <= MaxChallenges
    \/ \E r \in 1..MaxRequests, sid \in 1..Len(sessions) : EndSessionFetch(r, sid, {})
    \/ \E r \in 1..MaxRequests : EndSessionUpdate(r, {})
    \/ \E r \in 1..MaxRequests : EndSessionSideEffect(r, {})

SpecEndRace == Init /\ [][NextEndRace]_vars

\* Adjust-reps requests whose datastore calls are separate steps, one request
\* per slot, on the subtopics of one topic
RepsDeltas == {-2, 3, 5}
NextRepsRace ==
    \/ /\ topics = <<>>
       /\ PostTopic([title |-> "Math", category |-> "Study", moneyPer5Reps |-> Number(100)], {})
    \/ /\ \A r \in DOMAIN req : req[r].pc = "idle"
       /\ \E t \in 1..Len(topics) :
            PostSubtopic(t, [title |-> "Algebra", goalAmount |-> Number(2000)], {})
       /\ Len(subtopics') <= MaxSubtopics
    \/ \E r \in 1..MaxRequests, id \in 0..(Len(subtopics) + 1), d \in RepsDeltas :
            AddRepsRead(r, id, [reps |-> Number(d)], {})
    \/ \E r \in 1..MaxRequests : AddRepsWrite(r, {})
    \/ \E r \in 1..MaxRequests : AddRepsRecalculate(r, {})
    \/ \E r \in 1..MaxRequests : AddRepsTopicWrite(r, {})

SpecRepsRace == Init /\ [][NextRepsRace]_vars

\* The topic and subtopic requests and the dashboard, one whole request at a
\* time, an adjust-reps request with or without a failing topic write
NextSequential ==
    \/ /\ PostTopic([title |-> "Math", category |-> "Study",
                     moneyPer5Reps |-> Number(100)], {})
       /\ Len(topics') <= MaxTopics
    \/ \E t \in 1..Len(topics), rate \in {0, 200} :
          PutTopic(t, [moneyPer5Reps |-> Number(rate)], {})
    \/ \E t \in 1..Len(topics) : GetTopic(t, {})
    \/ \E t \in 1..Len(topics) :
          /\ PostSubtopic(t, [title |-> "Algebra", goalAmount |-> Number(2000)], {})
          /\ Len(subtopics') <= MaxValidated
    \/ \E id \in 1..Len(subtopics) : PutSubtopic(id, [notes |-> "see chapter 2"], {})
    \/ \E id \in 1..Len(subtopics), d \in {-3, 3}, F \in StaleFaults \cup {{}} :
          /\ PostSubtopicReps(id, [reps |-> Number(d)], F)
          /\ \A i \in DOMAIN subtopics' : subtopics'[i].reps_completed <= MaxRepsCompleted
    \/ GetDashboard({})

SpecSequential == Init /\ [][NextSequential]_vars

\* Start and end requests one at a time, the existing-session lookup of a
\* start answering or failing
NextConflict ==
    \/ Tick(60)
    \/ \E a \in 1..Len(activities), F \in {{}, {"sessionRead"}} :
           PostSessionStart(a, "none", 0, F) /\ Len(sessions') <= MaxSessions
    \/ \E sid \in 1..(Len(sessions) + 1) : PostSessionEnd(sid, {})

SpecConflict == Init /\ [][NextConflict]_vars

\* The timer status read over the 64 days of a challenge and past them
NextTimer ==
    \/ \E d \in TickSeconds : Tick(d)
    \/ Sleep(SleepSeconds)
    \/ PostChallenge(500, {}) /\ Len(challenges') <= MaxChallenges
    \/ \E tz \in TimezoneOffsets : GetTimerStatus(tz, {})

SpecTimer == Init /\ [][NextTimer]_vars

\* Create-challenge requests one at a time, the insert of the challenge or
\* of its first progress row answering or failing
NextCreate ==
    \/ \E d \in TickSeconds : Tick(d)
    \/ \E g \in GoalHoursInputs, F \in {{}, {"challengeInsert"}, {"progressWrite"}} :
           PostChallenge(g, F) /\ Len(challenges') <= MaxCreated

SpecCreate == Init /\ [][NextCreate]_vars

----------------------------------------------------------------------------
(* Claims *)

C7_EndSessionDuration ==
    [][resp'.op = "endSession" =>
       \A sid \in DOMAIN sessions, F \in Reliable :
           (sessions[sid].is_active /\ PostSessionEnd(sid, F))
           => LET start == sessions[sid].start_time
                  s == sessions'[sid]
              IN  /\ resp'.status = 200
                  /\ ~s.is_active
                  /\ s.end_time = <<now>>
                  /\ s.duration_minutes =
                         <<IF now - start < 60 THEN 0 ELSE (now - start) \div 60>>
                  /\ (now - start = 125 => s.duration_minutes = <<2>>)]_vars

\* a session ended 125 seconds after it started, and one ended before its
\* recorded start time
C7_Witness ==
    /\ \E i \in DOMAIN sessions :
           /\ ~sessions[i].is_active
           /\ sessions[i].end_time[1] - sessions[i].start_time = 125
           /\ sessions[i].duration_minutes = <<2>>
    /\ \E i \in DOMAIN sessions :
           /\ ~sessions[i].is_active
           /\ sessions[i].end_time[1] < sessions[i].start_time
           /\ sessions[i].duration_minutes = <<0>>

\* C5: ending an active session of d > 0 minutes on an activity named
\* "Focus Hour" or "FOCUSSED TIME" adds exactly d to that activity's reps and,
\* when a challenge is active, exactly d to today's daily_focus_minutes,
\* creating today's row with daily_focus_minutes = d when there is none.
C5_FocusSideEffect ==
    [][resp'.op = "endSession" =>
       \A sid \in DOMAIN sessions, F \in Reliable :
           LET a == sessions[sid].activity_id
               d == (now - sessions[sid].start_time) \div 60
               today == now \div 86400
           IN  ( /\ sessions[sid].is_active
                 /\ d > 0
                 /\ activities[a].name \in {"Focus Hour", "FOCUSSED TIME"}
                 /\ PostSessionEnd(sid, F) )
               => /\ activities'[a].reps = activities[a].reps + d
                  /\ \A c \in DOMAIN challenges :
                        challenges[c].is_active =>
                          LET rows == {j \in DOMAIN progress :
                                          /\ progress[j].challenge_id = c
                                          /\ progress[j].progress_date = today}
                          IN  IF rows = {}
                              THEN /\ Len(progress') = Len(progress) + 1
                                   /\ progress'[Len(progress')].challenge_id = c
                                   /\ progress'[Len(progress')].progress_date = today
                                   /\ progress'[Len(progress')].daily_focus_minutes = d
                              ELSE /\ Len(progress') = Len(progress)
                                   /\ \A j \in rows :
                                         progress'[j].daily_focus_minutes =
                                             progress[j].daily_focus_minutes + d]_vars

\* sessions of a "FOCUSSED TIME" activity have added minutes both to the
\* row seeded on the challenge's first day and to a later day's row, which
\* the session end created
C5_Witness ==
    /\ \E a \in DOMAIN activities :
           activities[a].name = "FOCUSSED TIME" /\ activities[a].reps >= 2
    /\ \E j \in DOMAIN progress :
           /\ progress[j].daily_focus_minutes > 0
           /\ progress[j].progress_date =
                  challenges[progress[j].challenge_id].start_date \div 86400
    /\ \E j \in DOMAIN progress :
           /\ progress[j].daily_focus_minutes > 0
           /\ progress[j].progress_date #
                  challenges[progress[j].challenge_id].start_date \div 86400

\* C6: when the Focus Hour side effect of endSession fails, or no challenge
\* is active, endSession still answers with the session, is_active = false;
\* and when nothing fails and only the challenge is missing, the reps are
\* still incremented by the duration.
C6_SideEffectSwallowed ==
    [][resp'.op = "endSession" =>
       \A sid \in DOMAIN sessions, F \in FaultSets :
           (sessions[sid].is_active /\ PostSessionEnd(sid, F))
           => LET a == sessions[sid].activity_id
                  d == (now - sessions[sid].start_time) \div 60
              IN  /\ resp'.status = 200
                  /\ resp'.id = sid
                  /\ ~sessions'[sid].is_active
                  /\ ( /\ F \subseteq {"rpc"}
                       /\ d > 0
                       /\ activities[a].name \in FocusNames
                       /\ \A c \in DOMAIN challenges : ~challenges[c].is_active )
                     => /\ activities'[a].reps = activities[a].reps + d
                        /\ progress' = progress]_vars

\* a Focus Hour session of two minutes was ended and answered, its minutes
\* in neither the activity's reps nor the active challenge's progress
C6_Witness ==
    /\ resp.op = "endSession" /\ resp.status = 200
    /\ ~sessions[resp.id].is_active
    /\ sessions[resp.id].duration_minutes = <<2>>
    /\ activities[sessions[resp.id].activity_id].name = "Focus Hour"
    /\ activities[sessions[resp.id].activity_id].reps = 0
    /\ \E c \in DOMAIN challenges : challenges[c].is_active
    /\ \A j \in DOMAIN progress : progress[j].daily_focus_minutes = 0

\* C8: decrementReps stores max(0, c - a) for current reps c and amount a,
\* never a value below 0.
C8_DecrementClamped ==
    [][resp'.op = "decrementReps" =>
       \A id \in DOMAIN activities, b \in DecrementInputs :
           PostDecrement(id, b, {})
           => LET c == activities[id].reps
                  a == IF b = 0 THEN 1 ELSE b
              IN  /\ resp'.status = 200
                  /\ activities'[id].reps = (IF c - a > 0 THEN c - a ELSE 0)
                  /\ activities'[id].reps >= 0]_vars

\* a decrement was answered and left the activity at zero reps
C8_Witness ==
    /\ resp.op = "decrementReps" /\ resp.status = 200
    /\ activities[resp.id].reps = 0

\* C9: every activity's reps is >= 0 in every reachable state.
C9_RepsNonNegative ==
    \A i \in DOMAIN activities : activities[i].reps >= 0

\* C2: a start-session request that found no active session passes the
\* lookup whatever other requests are in flight, and a request that passed the
\* lookup inserts an active session whatever was inserted since; so two
\* requests for one activity that both pass the lookup before either inserts
\* leave two active sessions.
C2_CheckThenInsertRace ==
    [][\A r \in 1..MaxRequests :
          /\ \A a \in DOMAIN activities :
                 ( /\ ActiveSessionsOf(sessions, a) = {}
                   /\ StartSessionCheck(r, a, "none") )
                 => req'[r].pc = "startInsert" /\ req'[r].a = a
          /\ ( req[r].pc = "startInsert" /\ StartSessionInsert(r, {}) )
             => /\ resp'.op = "startSession" /\ resp'.status = 201
                /\ Len(sessions') = Len(sessions) + 1
                /\ sessions'[Len(sessions')].activity_id = req[r].a
                /\ sessions'[Len(sessions')].is_active
                /\ \A i \in DOMAIN sessions : sessions'[i] = sessions[i]]_vars

\* two requests were answered 201 and the activity has two active sessions
C2_Witness ==
    /\ resp.op = "startSession" /\ resp.status = 201
    /\ \A r \in 1..MaxRequests : req[r].pc = "idle"
    /\ \E a \in DOMAIN activities : Cardinality(ActiveSessionsOf(sessions, a)) = 2

\* C4: through create-challenge requests at most one challenge has
\* is_active = true, and after a successful create the only active challenge
\* is the one just created.
C4_AtMostOneActiveChallenge ==
    Cardinality(ActiveChallenges(challenges)) <= 1

\* C10: adjusting a subtopic's reps by a delta of any sign stores
\* reps_completed = max(0, current + delta), and after every create-subtopic
\* and adjust-reps request every subtopic's reps_completed is >= 0.
C10_SubtopicRepsClamped ==
    [][/\ \A i \in DOMAIN subtopics' : subtopics'[i].reps_completed >= 0
       /\ resp'.op = "addReps" =>
             \A id \in DOMAIN subtopics, delta \in DeltaInputs :
                 PostSubtopicReps(id, [reps |-> Number(delta)], {})
                 => LET current == subtopics[id].reps_completed
                    IN  /\ resp'.status = 200
                        /\ subtopics'[id].reps_completed =
                               (IF current + delta > 0 THEN current + delta ELSE 0)
                        /\ \A i \in DOMAIN subtopics \ {id} : subtopics'[i] = subtopics[i]]_vars

\* an adjustment was answered and left its subtopic at zero reps, while
\* another subtopic holds the reps of earlier adjustments
C10_Witness ==
    /\ resp.op = "addReps" /\ resp.status = 200
    /\ subtopics[resp.id].reps_completed = 0
    /\ \E i \in DOMAIN subtopics : subtopics[i].reps_completed >= 5

\* C11: reading a topic answers with earnings and completion_percentage
\* recomputed from the topic's current subtopics and money_per_5_reps,
\* whatever values the row held, and writes the recomputed values to the row.
C11_ReadRecomputes ==
    [][resp'.op = "getTopic" =>
       \A t \in DOMAIN topics :
           GetTopic(t, {})
           => LET own == {i \in DOMAIN subtopics : subtopics[i].topic_id = t}
                  R == TotalRepsCompleted(getSubtopicsByTopicId(subtopics, t))
                  G == 18 * Cardinality(own)
                  answer == resp'.body[1]
              IN  /\ resp'.status = 200
                  /\ answer.earnings = (R \div 5) * topics[t].money_per_5_reps
                  /\ IF own = {}
                     THEN answer.completionPercentage = <<0, 1>>
                     ELSE answer.completionPercentage[1] * G
                              = 100 * R * answer.completionPercentage[2]
                  /\ topics'[t].earnings = answer.earnings
                  /\ topics'[t].completion_percentage = answer.completionPercentage
                  /\ \A u \in DOMAIN topics \ {t} : topics'[u] = topics[u]
                  /\ subtopics' = subtopics]_vars

\* a read answered with positive earnings for a topic with a single subtopic,
\* whose row held 0 since no request but the read wrote it after the
\* subtopic's reps grew
C11_Witness ==
    /\ resp.op = "getTopic" /\ resp.status = 200
    /\ Len(subtopics) = 1
    /\ subtopics[1].topic_id = resp.id
    /\ resp.body[1].earnings > 0
    /\ topics[resp.id].earnings = resp.body[1].earnings
    /\ topics[resp.id].completion_percentage # <<0, 1>>

\* C12: for subtopics with total reps_completed R and a rate M,
\* calculateTopicEarnings is floor(R / 5) * M, that is q * M for the q with
\* 5q <= R < 5q + 5; it is 0 whenever R < 5, whatever M is.
C12_TopicEarnings ==
    (resp.op = "getTopic" /\ resp.status = 200)
    => LET R == TotalRepsCompleted(subtopics)
           M == topics[resp.id].money_per_5_reps
           e == resp.body[1].earnings
       IN  /\ \E q \in 0..R : 5 * q <= R /\ R < 5 * q + 5 /\ e = q * M
           /\ R < 5 => e = 0

\* the earnings of 9 reps over two subtopics at rate 100 were calculated: one
\* group of five is paid, the four reps left over are not
C12_Witness ==
    /\ resp.op = "getTopic" /\ resp.status = 200
    /\ Len(subtopics) = 2
    /\ subtopics[1].reps_completed + subtopics[2].reps_completed = 9
    /\ topics[1].money_per_5_reps = 100
    /\ resp.body[1].earnings = 100

\* C13: every stored subtopic has reps_goal = 18, whatever the body of the
\* create-subtopic request held and whatever update-subtopic and adjust-reps
\* requests followed.
C13_RepsGoalIs18 ==
    \A i \in DOMAIN subtopics : subtopics[i].reps_goal = 18

\* a stored subtopic was updated by the body that asked for goalAmount 3000
\* and repsGoal 5, and then had its reps adjusted
C13_Witness ==
    /\ resp.op = "addReps" /\ resp.status = 200
    /\ subtopics[resp.id].goal_amount = 3000
    /\ subtopics[resp.id].reps_completed > 0

\* C14: every stored subtopic's goal_amount is a positive multiple of 1000
\* after any create-subtopic and update-subtopic requests; a goalAmount that
\* is not a number, is <= 0 or is not a multiple of 1000 (1500) is rejected
\* and stores nothing, and 2000 is accepted.
C14_GoalAmountMultiple ==
    [][/\ \A i \in DOMAIN subtopics' :
              subtopics'[i].goal_amount > 0 /\ subtopics'[i].goal_amount % 1000 = 0
       /\ resp'.op = "createSubtopic" =>
              \A t \in DOMAIN topics :
                  /\ \A body \in RejectedSubtopicBodies :
                         ("title" \in DOMAIN body /\ PostSubtopic(t, body, {}))
                         => resp'.status = 400 /\ subtopics' = subtopics
                  /\ PostSubtopic(t, [title |-> "Algebra", goalAmount |-> Number(2000)], {})
                     => /\ resp'.status = 201
                        /\ subtopics'[Len(subtopics')].goal_amount = 2000
       /\ resp'.op = "updateSubtopic" =>
              \A id \in DOMAIN subtopics, body \in RejectedSubtopicBodies :
                  ("title" \notin DOMAIN body /\ PutSubtopic(id, body, {}))
                  => resp'.status = 400 /\ subtopics' = subtopics]_vars

\* a create with goalAmount 1500 was turned away while a subtopic created
\* with 2000 and then updated to 3000 is stored
C14_Witness ==
    /\ resp = Response("createSubtopic", 400, "goalAmount must be a multiple of 1000", 0)
    /\ \E i \in DOMAIN subtopics : subtopics[i].goal_amount = 3000

\* the stored topics, subtopics and global settings
Stored == <<topics, subtopics, settings>>

RejectedAs(table, id, notFound) ==
    /\ Stored' = Stored
    /\ IF id # 0 /\ id \notin DOMAIN table
       THEN resp'.status = 404 /\ resp'.error = notFound
       ELSE resp'.status = 400

C16_MissingIsNotFound ==
    [][/\ resp'.op = "endSession" =>
            \A sid \in 1..(Len(sessions) + 1) :
                /\ IF sid \in DOMAIN sessions THEN ~sessions[sid].is_active ELSE TRUE
                /\ PostSessionEnd(sid, {})
                => resp'.status = 404
       /\ resp'.op = "updateActivity" =>
            \A u \in UpdateBodies :
                PutActivity(Len(activities) + 1, u, {}) => resp'.status = 404
       /\ resp'.op = "incrementReps" =>
            \A b \in IncrementInputs, F \in Reliable :
                PostIncrement(Len(activities) + 1, b, F) => resp'.status = 404
       /\ resp'.op = "decrementReps" =>
            \A b \in DecrementInputs :
                PostDecrement(Len(activities) + 1, b, {}) => resp'.status = 404
      ]_vars

\* the seconds of the local day from second x on that lie in 07:00-21:00
ActiveSecondsFrom(x) == Max(0, 21 * 3600 - Max(x, 7 * 3600))

\* C17: a countdown sync stores in today's progress row
\* countdown_seconds_remaining = max(0, (daysRemaining - 1) * 16 * 3600 + s),
\* daysRemaining the least d >= 0 with d days >= end_date - now and s the
\* seconds left today within 07:00-21:00, and is_active_period = true
\* exactly when the local hour h has 7 <= h < 21
C17_CountdownSync ==
    [][resp'.op = "syncCountdown" =>
         \A tz \in TimezoneOffsets :
             PostCountdownSync(tz, {}) /\ resp'.status = 200 =>
                 LET c == resp'.id
                     rows == ProgressRows(progress', c, Today(now))
                     left == challenges[c].end_date - now
                     x == LocalSecondOfDay(now, tz)
                     h == x \div 3600
                 IN  /\ rows # {}
                     /\ \E d \in 0..65 :
                            /\ d * 24 * 3600 >= left
                            /\ d = 0 \/ (d - 1) * 24 * 3600 < left
                            /\ \E j \in rows :
                                   /\ progress'[j].countdown_seconds_remaining =
                                          Max(0, (d - 1) * 16 * 3600 + ActiveSecondsFrom(x))
                                   /\ progress'[j].is_active_period = (7 <= h /\ h < 21)
                                   /\ \A k \in DOMAIN progress' \ {j} :
                                          k \in DOMAIN progress /\ progress'[k] = progress[k]
      ]_vars

\* C18: for every challenge and calendar date there is at most one
\* challenge-progress row, whichever way create-challenge, get-current,
\* countdown-sync and Focus Hour session-end requests interleave
C18_OneRowPerDate ==
    \A j, k \in DOMAIN progress :
        /\ progress[j].challenge_id = progress[k].challenge_id
        /\ progress[j].progress_date = progress[k].progress_date
        => j = k

\* C19: deleting a subtopic leaves the parent topic stored, with the earnings
\* and completion calculated from the subtopics that remain
C19_DeleteRecalculates ==
    [][resp'.op = "deleteSubtopic" =>
         \A id \in 1..Len(subtopics) :
             subtopics[id].topic_id # 0 /\ DeleteSubtopic(id, {}) =>
                 LET t == subtopics[id].topic_id
                     remaining == getSubtopicsByTopicId(subtopics', t)
                 IN  /\ Len(topics') = Len(topics)
                     /\ topics'[t].earnings =
                            calculateTopicEarnings(remaining, topics'[t].money_per_5_reps)
                     /\ topics'[t].completion_percentage =
                            calculateTopicCompletionPercentage(remaining)
      ]_vars

\* C20: ending an active session whose activity is named neither "Focus Hour"
\* nor "FOCUSSED TIME", or whose duration is 0 minutes, changes the row of
\* that session and nothing else: no activity, no progress row, no other
\* session
C20_NoSideEffect ==
    [][resp'.op = "endSession" =>
       \A sid \in DOMAIN sessions, F \in Reliable :
           LET a == sessions[sid].activity_id
               d == (now - sessions[sid].start_time) \div 60
           IN  ( /\ sessions[sid].is_active
                 /\ IF activities[a].name \in {"Focus Hour", "FOCUSSED TIME"}
                    THEN d = 0 ELSE TRUE
                 /\ PostSessionEnd(sid, F) )
               => /\ activities' = activities
                  /\ progress' = progress
                  /\ challenges' = challenges
                  /\ Len(sessions') = Len(sessions)
                  /\ ~sessions'[sid].is_active
                  /\ \A k \in DOMAIN sessions \ {sid} : sessions'[k] = sessions[k]]_vars

\* a Push-ups session of a minute or more and a Focus Hour session of 0
\* minutes have ended while a challenge is active: no activity has reps and
\* no progress row has focus minutes
C20_Witness ==
    /\ resp.op = "endSession" /\ resp.status = 200
    /\ \E i \in DOMAIN sessions :
           /\ ~sessions[i].is_active
           /\ activities[sessions[i].activity_id].name = "Push-ups"
           /\ sessions[i].duration_minutes # Null
           /\ sessions[i].duration_minutes[1] > 0
    /\ \E j \in DOMAIN sessions :
           /\ ~sessions[j].is_active
           /\ activities[sessions[j].activity_id].name = "Focus Hour"
           /\ sessions[j].duration_minutes = <<0>>
    /\ \A a \in DOMAIN activities : activities[a].reps = 0
    /\ ActiveChallenges(challenges) # {}
    /\ progress # <<>>
    /\ \A j \in DOMAIN progress : progress[j].daily_focus_minutes = 0

\* the column of a subtopic row that an update body's field is written to
SubtopicColumn(field) == IF field = "goalAmount" THEN "goal_amount" ELSE field

EndedMinutes(a) ==
    Sum([i \in DOMAIN sessions |->
            IF sessions[i].activity_id = a /\ ~sessions[i].is_active
            THEN DurationMinutes(sessions[i].start_time, now) ELSE 0])

\* C22: however end-session requests for one active Focus Hour session
\* interleave, its duration is added at most once: the activity's reps and
\* the challenge's focus minutes never exceed one duration per ended session
C22_DurationAddedOnce ==
    /\ \A a \in DOMAIN activities : activities[a].reps <= EndedMinutes(a)
    /\ Sum([j \in DOMAIN progress |-> progress[j].daily_focus_minutes])
           <= Sum([a \in DOMAIN activities |-> EndedMinutes(a)])

\* C23: once two interleaved adjust-reps requests d1 and d2 for one subtopic
\* (created with no reps, adjusted by these two alone) have completed, its
\* reps_completed is the result of applying both in some order
C23_NoLostAdjustment ==
    \A r1, r2 \in DOMAIN req :
        ( /\ r1 # r2
          /\ req[r1].pc = "done" /\ req[r2].pc = "done"
          /\ req[r1].id = req[r2].id
          /\ \A r3 \in DOMAIN req \ {r1, r2} : req[r3].id # req[r1].id )
        => subtopics[req[r1].id].reps_completed
               \in {NewRepsCompleted(NewRepsCompleted(0, req[r1].data.reps), req[r2].data.reps),
                    NewRepsCompleted(NewRepsCompleted(0, req[r2].data.reps), req[r1].data.reps)}

\* C24: once interleaved adjust-reps requests for different subtopics of one
\* topic have all completed, the topic's stored earnings are those of the
\* final reps: floor(R / 5) * money_per_5_reps
C24_FreshEarnings ==
    \A r1, r2 \in DOMAIN req :
        ( /\ req[r1].pc = "done" /\ req[r2].pc = "done"
          /\ req[r1].id # req[r2].id
          /\ \A r3 \in DOMAIN req : req[r3].pc \in {"idle", "done"} )
        => \A t \in DOMAIN topics :
               topics[t].earnings
                   = (TotalRepsCompleted(getSubtopicsByTopicId(subtopics, t)) \div 5)
                         * topics[t].money_per_5_reps

\* topic t is stored with the earnings of its subtopics' current reps
EarningsCurrent(tps, subs, t) ==
    tps[t].earnings
        = (TotalRepsCompleted(getSubtopicsByTopicId(subs, t)) \div 5) * tps[t].money_per_5_reps

\* a completed request of the kinds that keep the topics' earnings
CompletedRequest(r) ==
    /\ r.status \in {200, 201}
    /\ r.op \in {"createTopic", "updateTopic", "getTopic", "createSubtopic",
                 "updateSubtopic", "addReps", "getDashboard"}

C26_ActiveMeansConflict ==
    [][Len(sessions') > Len(sessions) =>
          /\ resp'.op = "startSession" /\ resp'.status = 201
          /\ ActiveSessionsOf(sessions, sessions'[Len(sessions')].activity_id) = {}]_vars

\* C27: a session with is_active = false never becomes active again, and an
\* end-session request that arrives for it fails: it answers 500, goes no
\* further, and changes no session row, no activity's reps and no progress
C27_EndedStaysEnded ==
    [][\A sid \in DOMAIN sessions :
          ~sessions[sid].is_active =>
              /\ ~sessions'[sid].is_active
              /\ \A r \in DOMAIN req :
                     EndSessionFetch(r, sid, {}) =>
                         /\ resp'.op = "endSession" /\ resp'.status = 500
                         /\ req' = req
                         /\ UNCHANGED <<sessions, activities, progress>>]_vars

\* an end request has been refused for a session that had ended with a
\* minute or more added to its activity
C27_Witness ==
    /\ resp.op = "endSession" /\ resp.status = 500
    /\ \A r \in DOMAIN req : req[r].pc = "idle"
    /\ \E sid \in DOMAIN sessions :
          /\ ~sessions[sid].is_active
          /\ sessions[sid].duration_minutes[1] >= 1
          /\ activities[sessions[sid].activity_id].reps >= 1

\* C28: for the active challenge, and a server in any one timezone, the
\* total seconds remaining that countdown sync computes never increases as
\* the clock advances, across local midnight and across 07:00 too
C28_TotalNeverIncreases ==
    [][\A c \in ActiveChallenges(challenges) \cap ActiveChallenges(challenges'),
         tz \in TimezoneOffsets :
          now' > now =>
              Countdown(challenges'[c], now', tz).total_seconds_remaining
                  <= Countdown(challenges[c], now, tz).total_seconds_remaining]_vars

\* C29: for the active challenge, the total_seconds_remaining that
\* GET /challenge/timer/status reports is the one POST /challenge/countdown/sync
\* computes at the same instant on the same server, past the end date too
C29_StatusEqualsSync ==
    [][resp'.op = "timerStatus" =>
          \A c \in ActiveChallenges(challenges), tz \in TimezoneOffsets :
              ( /\ resp'.body[1].server_timestamp = now'
                /\ resp'.body[1].current_hour = LocalHour(now, tz) )
              => resp'.body[1].total_seconds_remaining
                     = Countdown(challenges[c], now, tz).total_seconds_remaining]_vars

\* C30: a create-challenge request that fails after its deactivation step
\* (answers 500) leaves the challenge that was active before it active
C30_FailedCreateKeepsActive ==
    [][(resp'.op = "createChallenge" /\ resp'.status = 500) =>
          \A c \in ActiveChallenges(challenges) : c \in ActiveChallenges(challenges')]_vars

====
